---- MODULE Spec2Model ----
(***************************************************************************)
(* remote-m8: the bridge between the M8 tracker on a serial port and its   *)
(* websocket clients.                                                      *)
(*                                                                         *)
(* This module models the serial side of the server:                       *)
(*   - the serial thread of src/src/serial.rs (spawn): the open handshake, *)
(*     the read loop with its SLIP reassembly, the blocking hand-off of    *)
(*     tagged messages to the forwarder, and the control-queue poll that   *)
(*     writes client commands to the device;                               *)
(*   - SLIPCodec of src/server/src/serial.rs (decode, encode), the same    *)
(*     reassembly written as a tokio codec, fed with the same reads;       *)
(*   - the forwarder task of src/src/main.rs that moves serial messages    *)
(*     into the broadcast hub;                                             *)
(*   - handle_socket, as far as it feeds the control queue.                *)
(***************************************************************************)
EXTENDS Integers, Sequences, FiniteSets, TLC

\* ---------------------------------------------------------------- bounds
\* total number of bytes the device delivers in one behaviour
MaxBytes == 3
\* largest number of bytes one read returns (the code's buffer holds 1024)
MaxRead == 2
\* total number of commands the handlers send in one behaviour
MaxCmds == 2
\* total number of commands the handlers send in a burst (BurstSpec)
MaxBurst == 9

\* ------------------------------------------------------------- constants
DISCONNECT == 68
ENABLE == 69
RESET == 82
END == 192
TagS == 83
ChanCap == 8
CloseNormal == 1000

\* a non-END byte of the display stream (the RECT opcode)
RECT_FRAME == 254
DeviceBytes == {END, RECT_FRAME}

\* payloads a client sends: a key-state message, and one holding the END byte
KeyMsg == <<67, 1>>
EndMsg == <<END>>
Payloads == {KeyMsg, EndMsg}

Clients == {"c1", "c2"}

\* ------------------------------------------------------------ data types
\* enum WebsocketCmd { Connect, WsMessage(Vec<u8>) }
Connect == [type |-> "Connect", data |-> <<>>]
WsMessage(bytes) == [type |-> "WsMessage", data |-> bytes]

\* axum Message::Binary(data) and Message::Close(Some(CloseFrame{NORMAL, "Goodbye"}))
Binary(bytes) == [kind |-> "Binary", data |-> bytes]
CloseMsg == [kind |-> "Close", data |-> <<CloseNormal>>]
NoMsg == [kind |-> "None", data |-> <<>>]

\* the non-empty byte sequences of length at most n over the alphabet S
SeqsUpTo(S, n) == UNION {[1..k -> S] : k \in 1..n}

RECURSIVE Flatten(_)
Flatten(ss) == IF ss = <<>> THEN <<>> ELSE Head(ss) \o Flatten(Tail(ss))

Prefix(s, k) == SubSeq(s, 1, k)

IsPrefix(s, t) == Len(s) <= Len(t) /\ s = Prefix(t, Len(s))

\* ------------------------------------------------------ SLIP reassembly
\* (variant: the first END instead of the last)
first_end_idx(buf) ==
    LET S == {i \in 1..Len(buf) : buf[i] = END}
    IN  IF S = {} THEN 0 ELSE CHOOSE i \in S : \A j \in S : i <= j

\* work_buffer.iter().enumerate().rev().find_map(..): the index of the last
\* END in the buffer; Rust's Some(idx) (0-based) is idx + 1 here, None is 0.
last_end_idx(buf) ==
    LET S == {i \in 1..Len(buf) : buf[i] = END}
    IN  IF S = {} THEN 0 ELSE CHOOSE i \in S : \A j \in S : j <= i

\* (variant: the END marker is cut out instead of closing the chunk)
split_at_excl(buf, n) ==
    [to_send |-> SubSeq(buf, 1, n - 1), rest |-> SubSeq(buf, n + 1, Len(buf))]

\* tmp_buffer.split_at(idx + 1)
split_at(buf, n) == [to_send |-> SubSeq(buf, 1, n), rest |-> SubSeq(buf, n + 1, Len(buf))]

\* (variant: the position is counted from the front of the buffer)
rev_position_from_front(src) ==
    LET S == {k \in 0..(Len(src) - 1) : src[k + 1] = END}
    IN  IF S = {} THEN -1 ELSE CHOOSE k \in S : \A j \in S : k <= j

\* SLIPCodec::decode: src.iter().rev().position(|b| b == END) counts from the
\* back of the buffer; src.split_to(src.len() - idx) takes the front.
rev_position(src) ==
    LET S == {k \in 0..(Len(src) - 1) : src[Len(src) - k] = END}
    IN  IF S = {} THEN -1 ELSE CHOOSE k \in S : \A j \in S : k <= j

decode(src) ==
    LET idx == rev_position(src)
    IN  IF idx >= 0
        THEN [some |-> TRUE,
              packet |-> SubSeq(src, 1, Len(src) - idx),
              rest |-> SubSeq(src, Len(src) - idx + 1, Len(src))]
        ELSE [some |-> FALSE, packet |-> <<>>, rest |-> src]

\* Framed (Serial::stream): after a read, decode is called until it yields None
RECURSIVE framed_frames(_)
framed_frames(src) ==
    LET r == decode(src)
    IN  IF r.some THEN <<r.packet>> \o framed_frames(r.rest) ELSE <<>>

RECURSIVE framed_rest(_)
framed_rest(src) ==
    LET r == decode(src)
    IN  IF r.some THEN framed_rest(r.rest) ELSE src

\* SLIPCodec::encode: what the sink appends to dst for one item
encode(item) ==
    IF item.type = "Connect" THEN <<ENABLE, RESET>> ELSE item.data

\* (variant: the chunk goes out without its tag)
tag_serial_untagged(to_send) == Binary(to_send)

\* vec_data = vec![b'S']; vec_data.extend_from_slice(to_send)
tag_serial(to_send) == Binary(<<TagS>> \o to_send)

\* ----------------------------------------------------------------- state
VARIABLES
    pc,              \* position of the serial thread
    devOut,          \* every byte written to the device, in order
    work_buffer,     \* the residual of the thread's reassembly
    pending,         \* the message the thread is handing to serial_sender
    serial_chan,     \* tokio mpsc channel serial_sender -> serial_receiver
    serial_control,  \* std mpsc channel of WebsocketCmd
    hubLog,          \* messages the forwarder has sent to the broadcast hub
    conn,            \* state of each connection handler
    codec_src,       \* the BytesMut of the framed SLIPCodec
    codec_out,       \* the frames the framed stream has yielded
    lastRead,        \* outcome of the latest sp.read
    readLog,         \* history: every byte read from the device
    chunks,          \* history: every chunk the reassembly made ready
    codec_dst,       \* the bytes SLIPCodec::encode has put into the sink
    enqLog,          \* history: every command sent into serial_control
    dequeued,        \* history: every command the thread took from the queue
    \* the shared sink of the server crate (AppState.serial_sink)
    sink_lock,       \* the handler holding the Mutex, or "free"
    sink_buf,        \* write buffer of the framed sink: bytes encoded, not yet written
    sink_out,        \* the bytes the sink has written to the device
    sink_cmds,       \* history: the commands given to the sink, in lock order
    srv_pc,          \* state of each connection handler of the server crate
    \* the broadcast hub and the sockets
    audio_chan,      \* tokio mpsc channel audio_sender -> audio_receiver
    audio_made,      \* number of audio packets the capture callback has sent
    sub_next,        \* per handler: hub messages its subscription is past, -1 if none
    sub_start,       \* history: length of the hub's log when the handler subscribed
    sockIn,          \* per handler: frames of its client it has not taken yet
    sockOut,         \* per handler: messages sent to its client socket
    hubRecv,         \* history: messages the handler's subscription has returned
    lastArm,         \* per handler: the arm of its loop taken last
    sent,            \* history: commands each handler has sent to serial_control
    framesIn,        \* history: binary frames each handler has taken from its socket
    \* the capture side: the input callback, its resampler and the encoder
    cap_fmt,         \* sample format of the input stream, "none" before it is built
    cap_pc,          \* position of the input callback: idle, in its loop, panicked
    sample_buffer,   \* samples waiting for the resampler (VecDeque<T>)
    in_next,         \* resampler.input_frames_next()
    fed,             \* history: the samples of every buffer write_data has queued
    stepLog,         \* history: what each resampling step needed and took
    pcm_chan,        \* futures mpsc channel of resampled frames
    encLog,          \* history: every frame the encoder got, and the message made of it
    cap_parked,      \* the sender of the running callback is parked in the channel
    parked_old,      \* parked senders of callbacks that have returned, still queued
    \* the playback side of the clients
    rs_rates,        \* AudioResampler: its source and destination rate, empty before new
    rs_log,          \* history: input and output of the latest resample, if any
    ring,            \* the ring buffer the output callback pops from
    last_popped,     \* history: the sample popped last, empty before the first
    play_last,       \* history: what the latest output callback found and left, if any
    play_pc,         \* the output callback on the ring: idle or panicked
    wa_rate,         \* rate of the output device of the native client, 0 before the stream
    pk_chan,         \* std mpsc channel of audio packets to the output callback
    rq,              \* Resampler.output_buffer: decoded samples not played yet
    wa_pc,           \* the output callback of the native client: idle, or in recv
    wa_data,         \* history: request size and the slots the callback has filled
    \* the UI client: its decoder of what the socket delivers, and its keys
    dec_pc,          \* the run loop of the UI: idle, in the chunks of a message, panicked
    dec_todo,        \* chunks of the message in hand the decoder has not reached yet
    last_rgb,        \* last_r, last_g, last_b: the colour carried between frames
    font_id,         \* the font the latest SYSTEM frame selected
    ops,             \* the drawing operations of the chunk decoded last
    dec_frame,       \* history: the chunk decoded last, empty before the first
    dec_fed,         \* number of frames and packets the run loop has been given
    keystate,        \* the bitmask of the keys held, as sent last
    keys_down,       \* history: the keys the user holds down
    key_sent,        \* messages process_key has sent to the socket, in order
    key_events,      \* number of key events of the behaviour
    key_todo,        \* key events of the frame in hand the run loop has not reached yet
    \* the race of the two arms in the loop of one handler
    arm_pc,          \* per handler: in select, in the body of an arm, or out of the loop
    arm_hubq,        \* per handler: hub messages its subscription has ready
    arm_sockq        \* per handler: frames its socket has ready

sinkVars == <<sink_lock, sink_buf, sink_out, sink_cmds, srv_pc>>

sockVars == <<sub_next, sub_start, sockIn, sockOut, hubRecv, lastArm, sent, framesIn>>

audioVars == <<audio_chan, audio_made>>

captureVars == <<cap_fmt, cap_pc, sample_buffer, in_next, fed, stepLog, pcm_chan, encLog,
                cap_parked, parked_old>>

\* the audio pipelines at both ends
playVars == <<rs_rates, rs_log, ring, last_popped, play_last, play_pc, wa_rate, pk_chan, rq,
             wa_pc, wa_data>>

\* the UI client
uiVars == <<dec_pc, dec_todo, last_rgb, font_id, ops, dec_frame, dec_fed, keystate,
           keys_down, key_sent, key_events, key_todo>>

armVars == <<arm_pc, arm_hubq, arm_sockq>>

mediaVars == <<captureVars, playVars, uiVars, armVars>>

\* what the serial link and the handlers feeding it leave alone
extVars == <<sinkVars, sockVars, audioVars, mediaVars>>

vars == <<pc, devOut, work_buffer, pending, serial_chan, serial_control, hubLog,
          conn, codec_src, codec_out, codec_dst, lastRead, readLog, chunks, enqLog,
          dequeued, sinkVars, sockVars, audioVars,
         mediaVars>>

readVars == <<work_buffer, pending, lastRead, readLog, chunks, codec_src, codec_out>>

writeVars == <<devOut, dequeued, codec_dst>>

Init ==
    /\ pc = "open"
    /\ devOut = <<>>
    /\ work_buffer = <<>>
    /\ pending = NoMsg
    /\ serial_chan = <<>>
    /\ serial_control = <<>>
    /\ hubLog = <<>>
    /\ conn = [c \in Clients |-> "Connecting"]
    /\ codec_src = <<>>
    /\ codec_out = <<>>
    /\ lastRead = "none"
    /\ readLog = <<>>
    /\ chunks = <<>>
    /\ enqLog = <<>>
    /\ dequeued = <<>>
    /\ codec_dst = <<>>
    /\ sink_lock = "free"
    /\ sink_buf = <<>>
    /\ sink_out = <<>>
    /\ sink_cmds = <<>>
    /\ srv_pc = [c \in Clients |-> "Connecting"]
    /\ audio_chan = <<>>
    /\ audio_made = 0
    /\ sub_next = [c \in Clients |-> -1]
    /\ sub_start = [c \in Clients |-> 0]
    /\ sockIn = [c \in Clients |-> <<>>]
    /\ sockOut = [c \in Clients |-> <<>>]
    /\ hubRecv = [c \in Clients |-> <<>>]
    /\ lastArm = [c \in Clients |-> "none"]
    /\ sent = [c \in Clients |-> <<>>]
    /\ framesIn = [c \in Clients |-> <<>>]
    /\ cap_fmt = "none"
    /\ cap_pc = "idle"
    /\ sample_buffer = <<>>
    /\ in_next = 0
    /\ fed = <<>>
    /\ stepLog = <<>>
    /\ pcm_chan = <<>>
    /\ encLog = <<>>
    /\ cap_parked = FALSE
    /\ parked_old = 0
    /\ rs_rates = <<>>
    /\ rs_log = <<>>
    /\ ring = <<>>
    /\ last_popped = <<>>
    /\ play_last = <<>>
    /\ play_pc = "idle"
    /\ wa_rate = 0
    /\ pk_chan = <<>>
    /\ rq = <<>>
    /\ wa_pc = "idle"
    /\ wa_data = [req |-> 0, slots |-> <<>>]
    /\ dec_pc = "idle"
    /\ dec_todo = <<>>
    /\ last_rgb = <<0, 0, 0>>
    /\ font_id = 0
    /\ ops = <<>>
    /\ dec_frame = <<>>
    /\ dec_fed = 0
    /\ keystate = 0
    /\ keys_down = {}
    /\ key_sent = <<>>
    /\ key_events = 0
    /\ key_todo = <<>>
    /\ arm_pc = [c \in Clients |-> "select"]
    /\ arm_hubq = [c \in Clients |-> 0]
    /\ arm_sockq = [c \in Clients |-> 0]

\* ------------------------------------------------------ the serial thread
\* sp.write_all(bytes): all of bytes reach the device, or the write fails after
\* some of them did
write_all(bytes, ok, k) == IF ok THEN bytes ELSE Prefix(bytes, k)

WriteOutcomes(bytes) ==
    {<<TRUE, Len(bytes)>>} \cup {<<FALSE, k>> : k \in 0..(Len(bytes) - 1)}

\* the two writes of the open handshake
init_first == <<DISCONNECT>>

\* (variant: RESET before ENABLE)
init_second_swapped == <<RESET, ENABLE>>

init_second == <<ENABLE, RESET>>

\* sp.write_all(&[DISCONNECT]).unwrap()
SerialInitDisconnect ==
    /\ pc = "open"
    /\ \E o \in WriteOutcomes(init_first) :
          /\ devOut' = devOut \o write_all(init_first, o[1], o[2])
          /\ pc' = IF o[1] THEN "sleep" ELSE "panicked"
    /\ UNCHANGED <<readVars, serial_chan, serial_control, hubLog, conn, enqLog,
                   dequeued, codec_dst>>
    /\ UNCHANGED extVars

\* sleep(50ms); sp.write_all(&[ENABLE, RESET]).unwrap()
SerialInitReset ==
    /\ pc = "sleep"
    /\ \E o \in WriteOutcomes(init_second) :
          /\ devOut' = devOut \o write_all(init_second, o[1], o[2])
          /\ pc' = IF o[1] THEN "read" ELSE "panicked"
    /\ UNCHANGED <<readVars, serial_chan, serial_control, hubLog, conn, enqLog,
                   dequeued, codec_dst>>
    /\ UNCHANGED extVars

\* sp.read: Err(e), by e.kind()
ReadErrKinds == {"TimedOut", "Interrupted", "Other"}

\* (variant: only Interrupted is let through, a timeout panics)
read_err_timeout_fatal(kind) ==
    IF kind = "Interrupted" THEN "poll" ELSE "panicked"

\* (variant: a transient error restarts the loop at the read, as `continue` would)
read_err_continue(kind) ==
    IF kind \in {"TimedOut", "Interrupted"} THEN "read" ELSE "panicked"

read_err_next(kind) ==
    IF kind \in {"TimedOut", "Interrupted"} THEN "poll" ELSE "panicked"

ReadErr(kind) ==
    /\ pc = "read"
    /\ lastRead' = kind
    /\ pc' = read_err_next(kind)
    /\ UNCHANGED <<work_buffer, pending, readLog, chunks, codec_src, codec_out,
                   writeVars, serial_chan, serial_control, hubLog, conn, enqLog>>
    /\ UNCHANGED extVars

\* sp.read: Ok(0); the Close message is handed to serial_sender next
ReadZero ==
    /\ pc = "read"
    /\ lastRead' = "Zero"
    /\ pending' = CloseMsg
    /\ pc' = "send"
    /\ UNCHANGED <<work_buffer, readLog, chunks, codec_src, codec_out,
                   writeVars, serial_chan, serial_control, hubLog, conn, enqLog>>
    /\ UNCHANGED extVars

\* Ok(n) arm of the read: work_buffer.extend(&buffer[..n]), the search for the
\* last END, and the split of the buffer at it
reassemble(buffer, bytes) ==
    LET extended == buffer \o bytes
        idx == last_end_idx(extended)
        parts == split_at(extended, idx)
    IN  IF idx > 0
        THEN [found |-> TRUE, to_send |-> parts.to_send, rest |-> parts.rest]
        ELSE [found |-> FALSE, to_send |-> <<>>, rest |-> extended]

\* sp.read: Ok(n), n > 0, the bytes read being buffer[..n]
ReadData(bytes) ==
    /\ pc = "read"
    /\ Len(readLog) + Len(bytes) <= MaxBytes
    /\ lastRead' = "Data"
    /\ readLog' = readLog \o bytes
    /\ LET r == reassemble(work_buffer, bytes)
       IN  /\ work_buffer' = r.rest
           /\ IF r.found
              THEN /\ chunks' = Append(chunks, r.to_send)
                   /\ pending' = tag_serial(r.to_send)
                   /\ pc' = "send"
              ELSE /\ UNCHANGED <<chunks, pending>>
                   /\ pc' = "poll"
    /\ codec_out' = codec_out \o framed_frames(codec_src \o bytes)
    /\ codec_src' = framed_rest(codec_src \o bytes)
    /\ UNCHANGED <<writeVars, serial_chan, serial_control, hubLog, conn, enqLog>>
    /\ UNCHANGED extVars

\* (variant: the break after the Close message is missing)
after_send_no_break(msg) == "poll"

\* where the thread goes once blocking_send has returned
after_send(msg) == IF msg.kind = "Close" THEN "done" ELSE "poll"

\* serial_sender.blocking_send(msg).unwrap(): waits while the channel is full
BlockingSend ==
    /\ pc = "send"
    /\ Len(serial_chan) < ChanCap
    /\ serial_chan' = Append(serial_chan, pending)
    /\ pending' = NoMsg
    /\ pc' = after_send(pending)
    /\ UNCHANGED <<work_buffer, lastRead, readLog, chunks, codec_src, codec_out,
                   writeVars, serial_control, hubLog, conn, enqLog>>
    /\ UNCHANGED extVars

\* (variant: the payload is SLIP-escaped on its way out, END as ESC ESC_END)
RECURSIVE slip_escape(_)
slip_escape(bytes) ==
    IF bytes = <<>> THEN <<>>
    ELSE (IF Head(bytes) = END THEN <<219, 220>> ELSE <<Head(bytes)>>)
         \o slip_escape(Tail(bytes))

control_bytes_escaped(cmd) ==
    IF cmd.type = "Connect" THEN <<ENABLE, RESET>> ELSE slip_escape(cmd.data)

\* the bytes the thread writes for a command taken from the queue
control_bytes(cmd) ==
    IF cmd.type = "Connect" THEN <<ENABLE, RESET>> ELSE cmd.data

\* serial_control_receiver.recv_timeout(10ms): Err(_read_timeout)
PollTimeout ==
    /\ pc = "poll"
    /\ serial_control = <<>>
    /\ pc' = "read"
    /\ UNCHANGED <<readVars, writeVars, serial_chan, serial_control, hubLog, conn,
                   enqLog>>
    /\ UNCHANGED extVars

\* (variant: a failed write is logged and the loop goes on)
after_write_ignore(ok) == "read"

\* Ok(()) => (), Err(e) => panic!(..); the unwrap of the Connect arm likewise
after_write(ok) == IF ok THEN "read" ELSE "panicked"

\* serial_control_receiver.recv_timeout(10ms): Ok(cmd), and the write of cmd
PollCommand ==
    /\ pc = "poll"
    /\ serial_control # <<>>
    /\ LET cmd == Head(serial_control)
       IN  /\ serial_control' = Tail(serial_control)
           /\ dequeued' = Append(dequeued, cmd)
           /\ codec_dst' = codec_dst \o encode(cmd)
           /\ \E o \in WriteOutcomes(control_bytes(cmd)) :
                 /\ devOut' = devOut \o write_all(control_bytes(cmd), o[1], o[2])
                 /\ pc' = after_write(o[1])
    /\ UNCHANGED <<readVars, serial_chan, hubLog, conn, enqLog>>
    /\ UNCHANGED extVars

\* ------------------------------------------------------------ forwarder
\* capacity of the broadcast channel
HubCap == 8

\* (variant: the hub holds a message back while one of its subscribers has a
\* full queue, as a bounded queue per subscriber with a waiting send would)
hub_send_waits ==
    \A c \in Clients :
        (sub_next[c] >= 0 /\ conn[c] \in {"Connecting", "Active"}) =>
            Len(hubLog) - sub_next[c] < HubCap

\* broadcast_sender1.send(msg): the call is not awaited, it returns at once
hub_send_ready == TRUE

\* (variant: the AppState keeps the sender only, the receiver made with the
\* channel is dropped)
held_receivers_none == {}

\* AppState.broadcast_receiver: the receiver made with the channel is in the
\* state the router holds for as long as it serves
held_receivers == {"state"}

\* the receivers of the hub: the one of the state and those of the handlers,
\* each from the clone of the state to the end of its handler
receivers ==
    held_receivers
        \cup {c \in Clients : sub_next[c] >= 0 /\ conn[c] \in {"Connecting", "Active"}}

\* broadcast_sender1.send(msg) is Ok while the hub has a receiver; on Err the
\* unwrap ends the forwarder, which publishes no more
hub_send_ok == receivers # {}

\* Some(msg) = serial_receiver.recv() => broadcast_sender1.send(msg).unwrap()
ForwardSerial ==
    /\ serial_chan # <<>>
    /\ hub_send_ready
    /\ hub_send_ok
    /\ hubLog' = Append(hubLog, Head(serial_chan))
    /\ serial_chan' = Tail(serial_chan)
    /\ UNCHANGED <<pc, readVars, writeVars, serial_control, conn, enqLog>>
    /\ UNCHANGED extVars

\* ------------------------------------------------------- handle_socket
\* the receiver of serial_control lives as long as the thread's closure
ReceiverAlive == pc \notin {"done", "panicked"}

\* (variant: a send that finds the queue occupied gives the command up, as a
\* try_send on a channel of capacity one would)
ControlSendLossy(c, cmd, next, cap) ==
    /\ Len(enqLog) < cap
    /\ IF ReceiverAlive
       THEN /\ serial_control' =
                 IF serial_control = <<>> THEN <<cmd>> ELSE serial_control
            /\ enqLog' = Append(enqLog, cmd)
            /\ conn' = [conn EXCEPT ![c] = next]
       ELSE /\ conn' = [conn EXCEPT ![c] = "Panicked"]
            /\ UNCHANGED <<serial_control, enqLog>>
    /\ UNCHANGED <<pc, readVars, writeVars, serial_chan, hubLog>>

\* serial_control_sender.send(cmd).unwrap() by handler c, which goes on in
\* state next; the unwrap panics once the receiver is gone. cap bounds the
\* number of commands of one behaviour.
ControlSend(c, cmd, next, cap) ==
    /\ Len(enqLog) < cap
    /\ IF ReceiverAlive
       THEN /\ serial_control' = Append(serial_control, cmd)
            /\ enqLog' = Append(enqLog, cmd)
            /\ conn' = [conn EXCEPT ![c] = next]
       ELSE /\ conn' = [conn EXCEPT ![c] = "Panicked"]
            /\ UNCHANGED <<serial_control, enqLog>>
    /\ UNCHANGED <<pc, readVars, writeVars, serial_chan, hubLog>>

\* entry of handle_socket: send(WebsocketCmd::Connect)
HandlerConnect(c, cap) ==
    /\ conn[c] = "Connecting"
    /\ ControlSend(c, Connect, "Active", cap)
    /\ UNCHANGED extVars

\* Some(Ok(Message::Binary(bytes))) => send(WebsocketCmd::WsMessage(bytes))
HandlerFrame(c, bytes, cap) ==
    /\ conn[c] = "Active"
    /\ ControlSend(c, WsMessage(bytes), "Active", cap)
    /\ UNCHANGED extVars

\* Some(Ok(Message::Close(_))) => break, Some(Err(e)) => break
HandlerClose(c) ==
    /\ conn[c] = "Active"
    /\ conn' = [conn EXCEPT ![c] = "Closing"]
    /\ UNCHANGED <<pc, readVars, writeVars, serial_chan, serial_control, hubLog,
                   enqLog>>
    /\ UNCHANGED extVars

\* ------------------------------------------------------- specification
\* one step of the serial thread
ThreadStep ==
    \/ SerialInitDisconnect
    \/ SerialInitReset
    \/ \E kind \in ReadErrKinds : ReadErr(kind)
    \/ ReadZero
    \/ \E bytes \in SeqsUpTo(DeviceBytes, MaxRead) : ReadData(bytes)
    \/ BlockingSend
    \/ PollTimeout
    \/ PollCommand

Next ==
    \/ SerialInitDisconnect
    \/ SerialInitReset
    \/ \E kind \in ReadErrKinds : ReadErr(kind)
    \/ ReadZero
    \/ \E bytes \in SeqsUpTo(DeviceBytes, MaxRead) : ReadData(bytes)
    \/ BlockingSend
    \/ PollTimeout
    \/ PollCommand
    \/ ForwardSerial
    \/ \E c \in Clients : HandlerConnect(c, MaxCmds)
    \/ \E c \in Clients, bytes \in Payloads : HandlerFrame(c, bytes, MaxCmds)
    \/ \E c \in Clients : HandlerClose(c)

Spec == Init /\ [][Next]_vars

\* The serial link with one handler feeding the control queue (the thread
\* sees the commands, not who sent them).
NextLink ==
    \/ SerialInitDisconnect
    \/ SerialInitReset
    \/ \E kind \in ReadErrKinds : ReadErr(kind)
    \/ ReadZero
    \/ \E bytes \in SeqsUpTo(DeviceBytes, MaxRead) : ReadData(bytes)
    \/ BlockingSend
    \/ PollTimeout
    \/ PollCommand
    \/ ForwardSerial
    \/ HandlerConnect("c1", MaxCmds)
    \/ \E bytes \in Payloads : HandlerFrame("c1", bytes, MaxCmds)
    \/ HandlerClose("c1")

\* The serial thread is an OS thread and the forwarder a spawned tokio task:
\* both keep running whenever they can take a step. The handlers act when
\* their clients do, under no fairness.
FairSpec ==
    Init /\ [][NextLink]_vars /\ WF_vars(ThreadStep) /\ WF_vars(ForwardSerial)

\* A burst of client traffic while the device is silent: every read times out
\* and the handlers send up to MaxBurst commands.
NextBurst ==
    \/ SerialInitDisconnect
    \/ SerialInitReset
    \/ ReadErr("TimedOut")
    \/ PollTimeout
    \/ PollCommand
    \/ \E c \in Clients : HandlerConnect(c, MaxBurst)
    \/ \E c \in Clients : HandlerFrame(c, KeyMsg, MaxBurst)

BurstSpec == Init /\ [][NextBurst]_vars

\* ------------------------------------------- the shared sink (server crate)
\* the state of the serial thread, its channels and the handlers feeding it
linkVars == <<pc, devOut, work_buffer, pending, serial_chan, serial_control, hubLog,
              conn, codec_src, codec_out, codec_dst, lastRead, readLog, chunks,
              enqLog, dequeued>>

\* commands given to the sink in one behaviour
MaxSinkCmds == 3

\* (variant: the sink is handed out without waiting for its holder)
lock_ready_unguarded(c) == TRUE

\* state.serial_sink.lock().await completes for handler c
lock_ready(c) == sink_lock = "free"

\* state.serial_sink.lock().await.send(cmd): handler c gets the Mutex and the
\* framed sink encodes cmd behind what its write buffer still holds; the guard
\* lives until the send has flushed.
SinkSend(c, cmd) ==
    /\ Len(sink_cmds) < MaxSinkCmds
    /\ lock_ready(c)
    /\ sink_lock' = c
    /\ sink_buf' = sink_buf \o encode(cmd)
    /\ sink_cmds' = Append(sink_cmds, [cmd |-> cmd, who |-> c])
    /\ srv_pc' = [srv_pc EXCEPT ![c] = "Sending"]
    /\ UNCHANGED <<sink_out, linkVars, sockVars, audioVars>>
    /\ UNCHANGED mediaVars

\* entry of handle_socket: lock().await.send(WebsocketCmd::Connect)
SrvConnect(c) ==
    /\ srv_pc[c] = "Connecting"
    /\ SinkSend(c, Connect)

\* Some(Ok(Message::Binary(bytes))) => lock().await.send(WsMessage(bytes))
SrvFrame(c, bytes) ==
    /\ srv_pc[c] = "Active"
    /\ SinkSend(c, WsMessage(bytes))

\* .send(..).await: the flush writes the n first bytes of the buffer to the
\* serial stream; the send is over, and the guard dropped, once the buffer
\* is empty
SrvFlush(c, n) ==
    /\ srv_pc[c] = "Sending"
    /\ n \in 1..Len(sink_buf)
    /\ sink_out' = sink_out \o Prefix(sink_buf, n)
    /\ sink_buf' = SubSeq(sink_buf, n + 1, Len(sink_buf))
    /\ IF n = Len(sink_buf)
       THEN /\ sink_lock' = "free"
            /\ srv_pc' = [srv_pc EXCEPT ![c] = "Active"]
       ELSE UNCHANGED <<sink_lock, srv_pc>>
    /\ UNCHANGED <<sink_cmds, linkVars, sockVars, audioVars>>
    /\ UNCHANGED mediaVars

\* .send(..).await.unwrap(): a write of the flush fails, the handler panics
\* and its guard is dropped; what was not written stays in the buffer
SrvFlushFail(c) ==
    /\ srv_pc[c] = "Sending"
    /\ sink_lock' = "free"
    /\ srv_pc' = [srv_pc EXCEPT ![c] = "Panicked"]
    /\ UNCHANGED <<sink_buf, sink_out, sink_cmds, linkVars, sockVars, audioVars>>
    /\ UNCHANGED mediaVars

\* Some(Ok(Message::Close(_))) => break, Some(Err(e)) => break
SrvClose(c) ==
    /\ srv_pc[c] = "Active"
    /\ srv_pc' = [srv_pc EXCEPT ![c] = "Closing"]
    /\ UNCHANGED <<sink_lock, sink_buf, sink_out, sink_cmds, linkVars, sockVars,
                   audioVars>>
    /\ UNCHANGED mediaVars

NextSink ==
    \/ \E c \in Clients : SrvConnect(c)
    \/ \E c \in Clients, bytes \in Payloads : SrvFrame(c, bytes)
    \/ \E c \in Clients, n \in 1..MaxBytes : SrvFlush(c, n)
    \/ \E c \in Clients : SrvFlushFail(c)
    \/ \E c \in Clients : SrvClose(c)

SinkSpec == Init /\ [][NextSink]_vars

\* --------------------------------------------- audio capture and its arm
\* tag of an audio packet
TagA == 65

\* audio packets captured in one behaviour, enough to lap the hub
MaxAudio == 9

\* (variant: the packet goes out as the codec made it, without a tag)
AudioMsg_bare(n) == Binary(<<n>>)

\* the n-th packet of the capture: the tag and then the compressed samples,
\* which differ from packet to packet
AudioMsg(n) == Binary(<<TagA, n>>)

\* the serial thread, its channels and its control queue
threadVars == <<pc, readVars, writeVars, serial_chan, serial_control, enqLog>>

\* write_data on a buffer that is not silent: audio_sender.blocking_send(..),
\* which waits while the channel is full. cap bounds the packets of one
\* behaviour.
AudioCallback(cap) ==
    /\ audio_made < cap
    /\ Len(audio_chan) < ChanCap
    /\ audio_made' = audio_made + 1
    /\ audio_chan' = Append(audio_chan, AudioMsg(audio_made + 1))
    /\ UNCHANGED <<linkVars, sinkVars, sockVars>>
    /\ UNCHANGED mediaVars

\* Some(msg) = audio_receiver.recv() => broadcast_sender1.send(msg).unwrap()
ForwardAudio ==
    /\ audio_chan # <<>>
    /\ hub_send_ready
    /\ hub_send_ok
    /\ hubLog' = Append(hubLog, Head(audio_chan))
    /\ audio_chan' = Tail(audio_chan)
    /\ UNCHANGED <<threadVars, conn, audio_made, sinkVars, sockVars>>
    /\ UNCHANGED mediaVars

\* ------------------------------------- handle_socket with its subscription
\* frames the clients send in one behaviour
MaxFrames == 2

\* what a client's side of the socket can yield
TextMsg == [kind |-> "Text", data |-> <<>>]
SocketErr == [kind |-> "Err", data |-> <<>>]
SocketEnd == [kind |-> "End", data |-> <<>>]
SocketEvents == {Binary(b) : b \in Payloads} \cup {CloseMsg, TextMsg, SocketErr, SocketEnd}

\* nothing follows the end of the stream, an error or a close frame
StreamOver(c) ==
    sockIn[c] # <<>> /\ sockIn[c][Len(sockIn[c])].kind \in {"End", "Err", "Close"}

\* (variant: a new subscription starts at the oldest message the hub holds)
subscribe_oldest == IF Len(hubLog) > HubCap THEN Len(hubLog) - HubCap ELSE 0

\* broadcast_sender.subscribe(): the new receiver starts at the tail
subscribe == Len(hubLog)

\* ws_handler: the State extractor clones the AppState, and the clone
\* subscribes
WsUpgrade(c) ==
    /\ conn[c] = "Connecting"
    /\ sub_next[c] = -1
    /\ sub_next' = [sub_next EXCEPT ![c] = subscribe]
    /\ sub_start' = [sub_start EXCEPT ![c] = Len(hubLog)]
    /\ UNCHANGED <<linkVars, sinkVars, audioVars, sockIn, sockOut, hubRecv, lastArm,
                   sent, framesIn>>
    /\ UNCHANGED mediaVars

\* the frames the clients in S have put on their sockets, less the one that
\* ended a handler
RECURSIVE FramesOf(_)
FramesOf(S) ==
    IF S = {} THEN 0
    ELSE LET c == CHOOSE x \in S : TRUE
         IN  Len(framesIn[c]) + Len(sockIn[c]) + FramesOf(S \ {c})

\* the client of c puts a frame on the socket, or its stream breaks or ends,
\* while the handler holds the socket
ClientEvent(c, ev) ==
    /\ sub_next[c] >= 0
    /\ conn[c] \in {"Connecting", "Active"}
    /\ ~StreamOver(c)
    /\ FramesOf(Clients) < MaxFrames
    /\ sockIn' = [sockIn EXCEPT ![c] = Append(@, ev)]
    /\ UNCHANGED <<linkVars, sinkVars, audioVars, sub_next, sub_start, sockOut,
                   hubRecv, lastArm, sent, framesIn>>
    /\ UNCHANGED mediaVars

\* what handler c has sent once its send of cmd is over
sent_after(c, cmd) ==
    IF ReceiverAlive THEN [sent EXCEPT ![c] = Append(@, cmd)] ELSE sent

\* (variant: the handler asks for the redraw with the bytes themselves, as
\* its client could)
entry_cmd_bytes == WsMessage(<<ENABLE, RESET>>)

\* the command a handler sends before its loop
entry_cmd == Connect

\* entry of handle_socket: serial_control_sender.send(Connect).unwrap()
WsConnect(c, cap) ==
    /\ conn[c] = "Connecting"
    /\ sub_next[c] >= 0
    /\ ControlSend(c, entry_cmd, "Active", cap)
    /\ sent' = sent_after(c, entry_cmd)
    /\ lastArm' = [lastArm EXCEPT ![c] = "Connect"]
    /\ UNCHANGED <<sinkVars, audioVars, sub_next, sub_start, sockIn, sockOut,
                   hubRecv, framesIn>>
    /\ UNCHANGED mediaVars

\* (variant: a break leaves the select, not the loop)
in_loop_after_break(c) == conn[c] \in {"Active", "Closing"}

\* loop { tokio::select! { .. } }: the handler is in its loop from the send of
\* the Connect until a break or a panic
in_loop(c) == conn[c] = "Active"

\* (variant: the hub keeps every message for every subscriber, none lags)
hub_lagged_never(c) == FALSE

\* state.broadcast_receiver.recv() is Err(Lagged): the message c is to get
\* next has been overwritten in the ring
hub_lagged(c) == Len(hubLog) - sub_next[c] > HubCap

\* (variant: the message goes out without its tag)
forwarded_untagged(msg) == [msg EXCEPT !.data = Tail(@)]

\* Ok(msg) => sender.send(msg): the message as the socket gets it
forwarded(msg) == msg

\* msg = state.broadcast_receiver.recv(): Ok(msg) => sender.send(msg).await
\* .unwrap(), the send failing (ok false) when the connection is broken;
\* Err(_recv_error) => break
WsHubRecv(c, ok) ==
    /\ in_loop(c)
    /\ sub_next[c] < Len(hubLog)
    /\ IF hub_lagged(c)
       THEN /\ ok
            /\ conn' = [conn EXCEPT ![c] = "Closing"]
            /\ lastArm' = [lastArm EXCEPT ![c] = "Lagged"]
            /\ UNCHANGED <<sub_next, hubRecv, sockOut>>
       ELSE LET msg == hubLog[sub_next[c] + 1]
            IN  /\ sub_next' = [sub_next EXCEPT ![c] = @ + 1]
                /\ hubRecv' = [hubRecv EXCEPT ![c] = Append(@, msg)]
                /\ lastArm' = [lastArm EXCEPT ![c] = "Hub"]
                /\ IF ok
                   THEN /\ sockOut' = [sockOut EXCEPT ![c] = Append(@, forwarded(msg))]
                        /\ UNCHANGED conn
                   ELSE /\ conn' = [conn EXCEPT ![c] = "Panicked"]
                        /\ UNCHANGED sockOut
    /\ UNCHANGED <<threadVars, hubLog, sinkVars, audioVars, sub_start, sockIn, sent,
                   framesIn>>
    /\ UNCHANGED mediaVars

\* (variant: the payload is cut to its first byte on its way to the queue)
frame_cmd_cut(bytes) == WsMessage(Prefix(bytes, 1))

\* Some(Ok(Message::Binary(bytes))) => WebsocketCmd::WsMessage(bytes)
frame_cmd(bytes) == WsMessage(bytes)

\* Some(Ok(Message::Binary(bytes))) => serial_control_sender.send(..).unwrap()
WsBinary(c, cap) ==
    /\ in_loop(c)
    /\ sockIn[c] # <<>>
    /\ Head(sockIn[c]).kind = "Binary"
    /\ ControlSend(c, frame_cmd(Head(sockIn[c]).data), "Active", cap)
    /\ sent' = sent_after(c, frame_cmd(Head(sockIn[c]).data))
    /\ framesIn' = [framesIn EXCEPT ![c] = Append(@, Head(sockIn[c]).data)]
    /\ sockIn' = [sockIn EXCEPT ![c] = Tail(@)]
    /\ lastArm' = [lastArm EXCEPT ![c] = "Binary"]
    /\ UNCHANGED <<sinkVars, audioVars, sub_next, sub_start, sockOut, hubRecv>>
    /\ UNCHANGED mediaVars

\* (variant: an error of the socket is logged and the loop goes on)
socket_arm_next_keeps_on(kind) ==
    CASE kind = "End" -> "Active"
      [] kind = "Err" -> "Active"
      [] kind = "Close" -> "Closing"
      [] OTHER -> "Panicked"

\* the socket arm of the loop, for what is not a binary frame:
\*   None => (), Some(Err(e)) => break, Some(Ok(Message::Close(_))) => break,
\*   Some(Ok(msg)) => todo!(..)
socket_arm_next(kind) ==
    CASE kind = "End" -> "Active"
      [] kind = "Err" -> "Closing"
      [] kind = "Close" -> "Closing"
      [] OTHER -> "Panicked"

\* (variant: a break in one handler ends the loop of every handler)
leave_all(c, next) == [d \in Clients |-> IF conn[d] = "Active" THEN next ELSE conn[d]]

\* break, or the end of the task: handler c alone leaves its loop
leave(c, next) == [conn EXCEPT ![c] = next]

\* msg = receiver.next(), msg not a binary frame; a stream that has ended
\* stays ended
WsSocket(c) ==
    /\ in_loop(c)
    /\ sockIn[c] # <<>>
    /\ Head(sockIn[c]).kind # "Binary"
    /\ conn' = leave(c, socket_arm_next(Head(sockIn[c]).kind))
    /\ lastArm' = [lastArm EXCEPT ![c] = Head(sockIn[c]).kind]
    /\ sockIn' = [sockIn EXCEPT ![c] =
                    IF Head(@).kind = "End" THEN @ ELSE Tail(@)]
    /\ UNCHANGED <<threadVars, hubLog, sinkVars, audioVars, sub_next, sub_start,
                   sockOut, hubRecv, sent, framesIn>>
    /\ UNCHANGED mediaVars

\* ------------------------------------------------ the hub and its readers
\* The capture feeds the hub while two clients come, read and leave.
NextHub ==
    \/ AudioCallback(MaxAudio)
    \/ ForwardAudio
    \/ \E c \in Clients : WsUpgrade(c)
    \/ \E c \in Clients : WsConnect(c, MaxAudio)
    \/ \E c \in Clients, ok \in BOOLEAN : WsHubRecv(c, ok)
    \/ \E c \in Clients : ClientEvent(c, CloseMsg)
    \/ \E c \in Clients : WsSocket(c)

HubSpec == Init /\ [][NextHub]_vars

\* --------------------------------------------- the handlers and their clients
\* audio packets while the clients talk
MaxSockAudio == 1

\* commands the handlers of one behaviour can have to send: a Connect each
\* and the frames of their clients
SockCmds == Cardinality(Clients) + MaxFrames

\* what the client of c does: the first does whatever a client can, the
\* second sends key presses and leaves with a close frame
EventsOf(c) == IF c = "c1" THEN SocketEvents ELSE {Binary(KeyMsg), CloseMsg}

\* Two clients come, send frames, break off or leave, while the hub carries a
\* little audio; the link may fail at the first write of its handshake.
NextSock ==
    \/ SerialInitDisconnect
    \/ AudioCallback(MaxSockAudio)
    \/ ForwardAudio
    \/ \E c \in Clients : WsUpgrade(c)
    \/ \E c \in Clients : WsConnect(c, SockCmds)
    \/ \E c \in Clients, ok \in BOOLEAN : WsHubRecv(c, ok)
    \/ \E c \in Clients : \E ev \in EventsOf(c) : ClientEvent(c, ev)
    \/ \E c \in Clients : WsBinary(c, SockCmds)
    \/ \E c \in Clients : WsSocket(c)

SockSpec == Init /\ [][NextSock]_vars

\* ------------------------------------------- the link, the hub and two clients
\* what the two clients do while the device talks: the first leaves with a
\* close frame, the second presses a key
RelayEvents(c) == IF c = "c1" THEN {CloseMsg} ELSE {Binary(KeyMsg)}

\* the serial thread while the device sends whole frames and then goes away
RelayThread ==
    \/ SerialInitDisconnect
    \/ SerialInitReset
    \/ ReadData(EndMsg)
    \/ ReadZero
    \/ BlockingSend
    \/ PollTimeout
    \/ PollCommand

\* The serial thread relays the frames of the device and may meet its end;
\* two clients come, the first leaves.
NextRelay ==
    \/ RelayThread
    \/ ForwardSerial
    \/ \E c \in Clients : WsUpgrade(c)
    \/ \E c \in Clients : WsConnect(c, SockCmds)
    \/ \E c \in Clients : WsHubRecv(c, TRUE)
    \/ \E c \in Clients : \E ev \in RelayEvents(c) : ClientEvent(c, ev)
    \/ \E c \in Clients : WsBinary(c, SockCmds)
    \/ \E c \in Clients : WsSocket(c)

RelaySpec == Init /\ [][NextRelay]_vars

\* ------------------------------------------- both producers and the clients
\* The serial thread and the capture both feed the hub, the device may go
\* away, and two clients come and listen.
NextFeed ==
    \/ RelayThread
    \/ ForwardSerial
    \/ AudioCallback(MaxSockAudio)
    \/ ForwardAudio
    \/ \E c \in Clients : WsUpgrade(c)
    \/ \E c \in Clients : WsConnect(c, SockCmds)
    \/ \E c \in Clients : WsHubRecv(c, TRUE)

FeedSpec == Init /\ [][NextFeed]_vars

\* ----------------------------------------------------- the capture pipeline
\* samples per buffer the device hands to the input callback
MaxBuf == 3

\* samples the callbacks of one behaviour queue in all
MaxFed == 4

\* frames per channel the resampler asks for, at most
MaxNeed == 2

SAMPLE_RATE == 48000
NUM_CHANNELS == 2
OPUS_CHUNK_SIZE == 960

\* capacity of the channel of resampled frames
PcmCap == 8

\* bytes of the machine word the silence test reads the buffer by (u128)
WordBytes == 16

\* the sample formats run() is instantiated for
Formats == {"I8", "I16", "I32", "I64", "U8", "U16", "U32", "U64", "F32", "F64"}

\* size_of::<T>()
SampleBytes(fmt) ==
    CASE fmt \in {"I8", "U8"} -> 1
      [] fmt \in {"I16", "U16"} -> 2
      [] fmt \in {"I32", "U32", "F32"} -> 4
      [] OTHER -> 8

\* A sample by its bits: "Z" all bits zero, "M" the top bit alone (the most
\* negative integer, the middle of an unsigned range, the float -0.0), "X"
\* any other value of ordinary size.
SampleBits == {"Z", "M", "X"}

\* the buffers a callback can be given
Buffers == SeqsUpTo(SampleBits, MaxBuf)

\* samples between the start of a buffer and the next 16-byte boundary
Offsets == {0, 1}

\* f32::from_sample(x) == 0.0
is_zero_f32(fmt, x) ==
    CASE fmt \in {"I8", "I16", "I32", "I64"} -> x = "Z"
      [] fmt \in {"U8", "U16", "U32", "U64"} -> x = "M"
      [] OTHER -> x \in {"Z", "M"}

\* data.align_to::<u128>(): the samples before the first boundary, the whole
\* words, and the samples after the last whole word
align_to(fmt, data, off) ==
    LET per == WordBytes \div SampleBytes(fmt)
        n == Len(data)
    IN  IF off > n
        THEN [prefix |-> data, aligned |-> <<>>, suffix |-> <<>>]
        ELSE LET words == (n - off) \div per
             IN  [prefix |-> SubSeq(data, 1, off),
                  aligned |-> SubSeq(data, off + 1, off + words * per),
                  suffix |-> SubSeq(data, off + words * per + 1, n)]

\* the test write_data opens with: prefix and suffix by their value as f32,
\* the whole words by their bits
is_silent(fmt, data, off) ==
    LET parts == align_to(fmt, data, off)
    IN  /\ \A i \in 1..Len(parts.prefix) : is_zero_f32(fmt, parts.prefix[i])
        /\ \A i \in 1..Len(parts.suffix) : is_zero_f32(fmt, parts.suffix[i])
        /\ \A i \in 1..Len(parts.aligned) : parts.aligned[i] = "Z"

\* run::<T>(..): the input stream is built for the format of the device, with
\* a resampler that asks for need frames first
CaptureOpen(fmt, need) ==
    /\ cap_fmt = "none"
    /\ cap_fmt' = fmt
    /\ in_next' = need
    /\ UNCHANGED <<cap_pc, sample_buffer, fed, stepLog, pcm_chan, encLog, cap_parked,
                   parked_old>>
    /\ UNCHANGED <<linkVars, sinkVars, sockVars, audioVars, playVars, uiVars, armVars>>

\* write_data up to its loop, with a clone of the sender made for the call:
\* a silent buffer is dropped, any other is queued. cap bounds the samples of
\* one behaviour.
CaptureCallback(data, off, cap) ==
    /\ cap_fmt # "none"
    /\ cap_pc = "idle"
    /\ Len(fed) + Len(data) <= cap
    /\ IF is_silent(cap_fmt, data, off)
       THEN UNCHANGED <<cap_pc, sample_buffer, fed>>
       ELSE /\ sample_buffer' = sample_buffer \o data
            /\ fed' = fed \o data
            /\ cap_pc' = "loop"
    /\ UNCHANGED <<cap_fmt, in_next, stepLog, pcm_chan, encLog, cap_parked, parked_old>>
    /\ UNCHANGED <<linkVars, sinkVars, sockVars, audioVars, playVars, uiVars, armVars>>

\* (variant: what a step leaves of the queue is thrown away)
after_drain_cleared(queue, n) == <<>>

\* sample_buffer.drain(..all_samples): the queue after a step took n samples
after_drain(queue, n) == SubSeq(queue, n + 1, Len(queue))

\* (variant: the resampler gives as many frames as it took)
process_out_len_as_in(frames_in) == frames_in

\* out_len of process_into_buffer: the resampler is built for chunks of
\* OPUS_CHUNK_SIZE frames out
process_out_len(frames_in) == OPUS_CHUNK_SIZE

\* do_send_b of the channel: the message is queued, and the sender parks
\* itself when the queue then holds more than the buffer of the channel
parks_after_push(queued) == queued > PcmCap

\* one turn of the loop of write_data: drain, resample, try_send(..).unwrap().
\* try_send is Err(Full) when this sender is parked, and only then.
ResampleStep(need) ==
    /\ cap_pc = "loop"
    /\ Len(sample_buffer) >= in_next * 2
    /\ LET all_samples == in_next * NUM_CHANNELS
           frame == [frames |-> process_out_len(in_next), seq |-> Len(stepLog) + 1]
       IN  /\ stepLog' = Append(stepLog, [need |-> in_next,
                                          took |-> SubSeq(sample_buffer, 1, all_samples)])
           /\ sample_buffer' = after_drain(sample_buffer, all_samples)
           /\ IF ~cap_parked
              THEN /\ pcm_chan' = Append(pcm_chan, frame)
                   /\ cap_parked' = parks_after_push(Len(pcm_chan) + 1)
                   /\ UNCHANGED cap_pc
              ELSE /\ cap_pc' = "panicked"
                   /\ UNCHANGED <<pcm_chan, cap_parked>>
    /\ in_next' = need
    /\ UNCHANGED <<cap_fmt, fed, encLog, parked_old>>
    /\ UNCHANGED <<linkVars, sinkVars, sockVars, audioVars, playVars, uiVars, armVars>>

\* the loop of write_data ends: the queue is short of the next step. The
\* clone of the sender is dropped; if it is parked, its entry stays in the
\* channel's queue of parked senders.
CaptureReturn ==
    /\ cap_pc = "loop"
    /\ Len(sample_buffer) < in_next * 2
    /\ cap_pc' = "idle"
    /\ cap_parked' = FALSE
    /\ parked_old' = IF cap_parked THEN parked_old + 1 ELSE parked_old
    /\ UNCHANGED <<cap_fmt, sample_buffer, in_next, fed, stepLog, pcm_chan, encLog>>
    /\ UNCHANGED <<linkVars, sinkVars, sockVars, audioVars, playVars, uiVars, armVars>>

\* the message the encoder makes of a frame: the tag and the codec packet
encoded(frame) == Binary(<<TagA, frame.seq>>)

\* audio_receiver.map(|data| encoder.encode_vec_float(&data, 960) ..): the
\* receiver takes a frame and unparks the sender parked first
Encode ==
    /\ pcm_chan # <<>>
    /\ encLog' = Append(encLog, [frame |-> Head(pcm_chan), msg |-> encoded(Head(pcm_chan))])
    /\ pcm_chan' = Tail(pcm_chan)
    /\ IF parked_old > 0
       THEN parked_old' = parked_old - 1 /\ UNCHANGED cap_parked
       ELSE cap_parked' = FALSE /\ UNCHANGED parked_old
    /\ UNCHANGED <<cap_fmt, cap_pc, sample_buffer, in_next, fed, stepLog>>
    /\ UNCHANGED <<linkVars, sinkVars, sockVars, audioVars, playVars, uiVars, armVars>>

\* The device hands buffers of any content and alignment to the callback of
\* a stream of any format.
NextCapture ==
    \/ \E fmt \in Formats, need \in 1..MaxNeed : CaptureOpen(fmt, need)
    \/ \E data \in Buffers, off \in Offsets : CaptureCallback(data, off, MaxFed)
    \/ \E need \in 1..MaxNeed : ResampleStep(need)
    \/ CaptureReturn
    \/ Encode

CaptureSpec == Init /\ [][NextCapture]_vars

\* frames the callbacks of one behaviour make while the encoder lags
MaxQueueFrames == 10

\* buffers that hold one frame or two for a resampler that asks for one sample
\* a channel
QueueBuffers == {[i \in 1..(k * NUM_CHANNELS) |-> "X"] : k \in 1..2}

\* The device hands over buffers of one or two frames, never silent, while
\* the encoder takes the frames when it comes to run.
NextQueue ==
    \/ CaptureOpen("F32", 1)
    \/ \E data \in QueueBuffers : CaptureCallback(data, 0, MaxQueueFrames * NUM_CHANNELS)
    \/ ResampleStep(1)
    \/ CaptureReturn
    \/ Encode

QueueSpec == Init /\ [][NextQueue]_vars

\* ---------------------------------------------------- the playback pipeline
\* the server and the capture side, which the playback leaves alone
serverVars == <<linkVars, sinkVars, sockVars, audioVars, captureVars, armVars>>

\* rates of the resampler, in a unit that keeps a second of samples short
MaxRate == 2

\* samples of one block given to the resampler
MaxPk == 4

\* slots the output device asks for in one callback
MaxReq == 3

\* samples the ring buffer holds
MaxRing == 3

\* the samples of the decoded audio, none of them silence
Pcm == {1, 2}

\* a sample the resampler has computed
Resampled == 9

\* what an output slot can hold before the callback writes to it
StaleVals == {0, 7}

\* length of write_buffer
WriteBufLen == 2048

Min(a, b) == IF a < b THEN a ELSE b

\* vec![0f32; n]
Zeros(n) == [i \in 1..n |-> 0]

\* AudioResampler::new(src_rate, dest_rate)
ResamplerNew(src, dest) ==
    /\ rs_rates = <<>>
    /\ rs_rates' = <<src, dest>>
    /\ UNCHANGED <<rs_log, ring, last_popped, play_last, play_pc, wa_rate, pk_chan, rq,
                   wa_pc, wa_data>>
    /\ UNCHANGED <<serverVars, uiVars>>

\* AudioResampler::resample: output_buffer is made anew as a second of
\* zeros; with equal rates the samples are appended to it and all of it is
\* drained; otherwise the frames the resampler gives are written over its
\* front and that front is drained
resample(samples, src, dest) ==
    LET output_buffer == Zeros(dest * NUM_CHANNELS)
    IN  IF src = dest
        THEN output_buffer \o samples
        ELSE LET out_len == Min(((Len(samples) \div NUM_CHANNELS) * dest) \div src, dest)
             IN  [i \in 1..(out_len * NUM_CHANNELS) |-> Resampled]

\* one call of resample on a block of decoded samples
Resample(samples) ==
    /\ rs_rates # <<>>
    /\ rs_log' = <<[in |-> samples, out |-> resample(samples, rs_rates[1], rs_rates[2])]>>
    /\ UNCHANGED <<rs_rates, ring, last_popped, play_last, play_pc, wa_rate, pk_chan, rq,
                   wa_pc, wa_data>>
    /\ UNCHANGED <<serverVars, uiVars>>

\* Resamplers of any pair of rates are given blocks of samples.
NextResample ==
    \/ \E src, dest \in 1..MaxRate : ResamplerNew(src, dest)
    \/ \E samples \in SeqsUpTo(Pcm, MaxPk) : Resample(samples)

ResampleSpec == Init /\ [][NextResample]_vars

\* the producer of the ring buffer pushes a sample
RingPush(x) ==
    /\ play_pc = "idle"
    /\ Len(ring) < MaxRing
    /\ ring' = Append(ring, x)
    /\ UNCHANGED <<rs_rates, rs_log, last_popped, play_last, play_pc, wa_rate, pk_chan, rq,
                   wa_pc, wa_data>>
    /\ UNCHANGED <<serverVars, uiVars>>

\* the slots of data after write_audio, written samples popped: the samples
\* popped, and in every slot after them what slot written held
filled(stale, popped) ==
    LET written == Len(popped)
    IN  [i \in 1..Len(stale) |-> IF i <= written THEN popped[i] ELSE stale[written + 1]]

\* write_audio of ui/src/audio.rs on an output buffer that holds stale
WriteAudio(stale) ==
    /\ play_pc = "idle"
    /\ IF Len(stale) > WriteBufLen
       THEN /\ play_pc' = "panicked"
            /\ UNCHANGED <<ring, last_popped, play_last>>
       ELSE LET written == Min(Len(stale), Len(ring))
                popped == SubSeq(ring, 1, written)
            IN  /\ ring' = SubSeq(ring, written + 1, Len(ring))
                /\ last_popped' = IF written > 0 THEN <<popped[written]>> ELSE last_popped
                /\ play_last' = <<[avail |-> ring, stale |-> stale,
                                  data |-> filled(stale, popped)]>>
                /\ UNCHANGED play_pc
    /\ UNCHANGED <<rs_rates, rs_log, wa_rate, pk_chan, rq, wa_pc, wa_data>>
    /\ UNCHANGED <<serverVars, uiVars>>

\* Samples come into the ring while the device asks for buffers of any size.
NextRing ==
    \/ \E x \in Pcm : RingPush(x)
    \/ \E stale \in SeqsUpTo(StaleVals, MaxReq) : WriteAudio(stale)

RingSpec == Init /\ [][NextRing]_vars

\* rates an output device can run at
DeviceRates == {44100, 48000}

\* audio packets waiting for the callback, at most
MaxPackets == 2

\* frames in one packet
PacketFrames == 2

\* the packets of the stream, by what tells them apart
Packets == {1, 2}

\* decoder.decode_float(&packet, ..): the samples of the frames of a packet
decode_float(packet) == [i \in 1..(PacketFrames * NUM_CHANNELS) |-> packet]

\* Resampler::extend: with equal rates the samples go to the queue as they
\* are, otherwise what the resampler makes of them does
extend(queue, samples, src, dest) ==
    IF src = dest
    THEN queue \o samples
    ELSE queue \o [i \in 1..((((Len(samples) \div NUM_CHANNELS) * dest) \div src)
                              * NUM_CHANNELS) |-> Resampled]

\* Resampler::<T>::new(SAMPLE_RATE, sample_rate) and build_output_stream
PlayOpen(rate) ==
    /\ wa_rate = 0
    /\ wa_rate' = rate
    /\ UNCHANGED <<rs_rates, rs_log, ring, last_popped, play_last, play_pc, pk_chan, rq,
                   wa_pc, wa_data>>
    /\ UNCHANGED <<serverVars, uiVars>>

\* [AUDIO_PACKET] => audio_sender.send(rest.to_vec())
PacketArrive(packet) ==
    /\ wa_rate # 0
    /\ Len(pk_chan) < MaxPackets
    /\ pk_chan' = Append(pk_chan, packet)
    /\ UNCHANGED <<rs_rates, rs_log, ring, last_popped, play_last, play_pc, wa_rate, rq,
                   wa_pc, wa_data>>
    /\ UNCHANGED <<serverVars, uiVars>>

\* write_audio of ui/src/main.rs up to its first recv: what the queue holds
\* is drained into the slots
WaCallback(req) ==
    /\ wa_rate # 0
    /\ wa_pc = "idle"
    /\ LET take == Min(req, Len(rq))
       IN  /\ wa_data' = [req |-> req, slots |-> SubSeq(rq, 1, take)]
           /\ rq' = SubSeq(rq, take + 1, Len(rq))
           /\ wa_pc' = IF take < req THEN "recv" ELSE "idle"
    /\ UNCHANGED <<rs_rates, rs_log, ring, last_popped, play_last, play_pc, wa_rate,
                   pk_chan>>
    /\ UNCHANGED <<serverVars, uiVars>>

\* audio_receiver.recv() returns a packet: it is decoded, the queue extended
\* and drained into the slots still empty
WaRecv ==
    /\ wa_pc = "recv"
    /\ pk_chan # <<>>
    /\ LET queue == extend(rq, decode_float(Head(pk_chan)), SAMPLE_RATE, wa_rate)
           take == Min(wa_data.req - Len(wa_data.slots), Len(queue))
       IN  /\ wa_data' = [wa_data EXCEPT !.slots = @ \o SubSeq(queue, 1, take)]
           /\ rq' = SubSeq(queue, take + 1, Len(queue))
           /\ wa_pc' = IF Len(wa_data.slots) + take < wa_data.req THEN "recv" ELSE "idle"
    /\ pk_chan' = Tail(pk_chan)
    /\ UNCHANGED <<rs_rates, rs_log, ring, last_popped, play_last, play_pc, wa_rate>>
    /\ UNCHANGED <<serverVars, uiVars>>

\* Packets come from the socket while the device asks for buffers.
NextPlay ==
    \/ \E rate \in DeviceRates : PlayOpen(rate)
    \/ \E packet \in Packets : PacketArrive(packet)
    \/ \E req \in 1..MaxReq : WaCallback(req)
    \/ WaRecv

PlaySpec == Init /\ [][NextPlay]_vars

\* ------------------------------------------------- the decoder of the UI
\* frames and packets the socket delivers to the UI in one behaviour, in one
\* message or in several
MaxDecoded == 2

TEXT_FRAME == 253
WAVE_FRAME == 252
SYSTEM_FRAME == 255
M8_SCREEN_WIDTH == 320
M8_SCREEN_HEIGHT == 240

\* a as f32 + b as f32 * 256f32
u16(lo, hi) == lo + hi * 256

\* the encoding of the device: END and ESC of a frame travel as two bytes
RECURSIVE slip_encode(_)
slip_encode(bytes) ==
    IF bytes = <<>> THEN <<>>
    ELSE (IF Head(bytes) = END THEN <<219, 220>>
          ELSE IF Head(bytes) = 219 THEN <<219, 221>>
          ELSE <<Head(bytes)>>)
         \o slip_encode(Tail(bytes))

\* simple_slip::decode(&tmp): the END markers go, the escapes are undone
RECURSIVE slip_decode(_)
slip_decode(bytes) ==
    IF bytes = <<>> THEN <<>>
    ELSE IF Head(bytes) = END THEN slip_decode(Tail(bytes))
    ELSE IF Head(bytes) = 219 /\ Len(bytes) >= 2 /\ bytes[2] = 220
         THEN <<END>> \o slip_decode(SubSeq(bytes, 3, Len(bytes)))
    ELSE IF Head(bytes) = 219 /\ Len(bytes) >= 2 /\ bytes[2] = 221
         THEN <<219>> \o slip_decode(SubSeq(bytes, 3, Len(bytes)))
    ELSE <<Head(bytes)>> \o slip_decode(Tail(bytes))

\* rest.split(|x| x == &0xc0): the pieces between the END markers, the empty
\* ones included
RECURSIVE split_end(_, _)
split_end(bytes, piece) ==
    IF bytes = <<>> THEN <<piece>>
    ELSE IF Head(bytes) = END THEN <<piece>> \o split_end(Tail(bytes), <<>>)
    ELSE split_end(Tail(bytes), Append(piece, Head(bytes)))

\* the drawing calls of macroquad
DrawRectangle(x, y, w, h, rgb) ==
    [op |-> "DrawRectangle", x |-> x, y |-> y, w |-> w, h |-> h, rgb |-> rgb]
ClearBackground == [op |-> "ClearBackground"]
DrawText(c, x, y, rgb, font) ==
    [op |-> "DrawText", c |-> c, x |-> x, y |-> y, rgb |-> rgb, font |-> font]

\* what the decoding of one frame leaves: the calls made, the carried colour,
\* the font; ok is false where the code panics
Decoded(calls, rgb, font) == [ok |-> TRUE, ops |-> calls, rgb |-> rgb, font |-> font]
DecodePanic(rgb, font) == [ok |-> FALSE, ops |-> <<>>, rgb |-> rgb, font |-> font]

\* (variant: a rectangle without a colour of its own is drawn black)
rect_colour_black(frame, rgb) ==
    IF Len(frame) = 11 THEN <<frame[9], frame[10], frame[11]>>
    ELSE IF Len(frame) = 7 THEN <<frame[5], frame[6], frame[7]>>
    ELSE <<0, 0, 0>>

\* r, g, b of the RECT arm after match frame.len()
rect_colour(frame, rgb) ==
    IF Len(frame) = 11 THEN <<frame[9], frame[10], frame[11]>>
    ELSE IF Len(frame) = 7 THEN <<frame[5], frame[6], frame[7]>>
    ELSE rgb

\* (variant: width and height are taken in the other order)
rect_size_swapped(frame) ==
    IF Len(frame) \in {11, 8}
    THEN <<u16(frame[7], frame[8]), u16(frame[5], frame[6])>>
    ELSE <<1, 1>>

\* w, h of the RECT arm after match frame.len()
rect_size(frame) ==
    IF Len(frame) \in {11, 8}
    THEN <<u16(frame[5], frame[6]), u16(frame[7], frame[8])>>
    ELSE <<1, 1>>

\* (variant: a rectangle as large as the screen clears it wherever it starts)
covers_screen_anywhere(x, y, w, h) == w >= M8_SCREEN_WIDTH /\ h >= M8_SCREEN_HEIGHT

\* x == 0.0 && y == 0.0 && w >= M8_SCREEN_WIDTH && h >= M8_SCREEN_HEIGHT
covers_screen(x, y, w, h) ==
    x = 0 /\ y = 0 /\ w >= M8_SCREEN_WIDTH /\ h >= M8_SCREEN_HEIGHT

\* [RECT_FRAME] => ..: frame[0..3] are read whatever the length
rect_frame(frame, rgb, font) ==
    IF Len(frame) < 4 THEN DecodePanic(rgb, font)
    ELSE LET x == u16(frame[1], frame[2])
             y == u16(frame[3], frame[4])
             size == rect_size(frame)
             colour == rect_colour(frame, rgb)
         IN  IF covers_screen(x, y, size[1], size[2])
             THEN Decoded(<<ClearBackground>>, colour, font)
             ELSE Decoded(<<DrawRectangle(x, y, size[1], size[2], colour)>>, colour, font)

\* [TEXT_FRAME] => ..: frame[0..10] are read, the font looked up, the
\* character made a str
text_frame(frame, rgb, font) ==
    IF Len(frame) < 11 \/ font \notin {0, 1} \/ frame[1] >= 128
    THEN DecodePanic(rgb, font)
    ELSE LET x == u16(frame[2], frame[3])
             y == u16(frame[4], frame[5])
             fg == <<frame[6], frame[7], frame[8]>>
             bg == <<frame[9], frame[10], frame[11]>>
         IN  Decoded((IF fg # bg THEN <<DrawRectangle(x, y + 1, 8, 11, bg)>> ELSE <<>>)
                      \o <<DrawText(frame[1], x, y + 11, fg, font)>>,
                     rgb, font)

\* [WAVE_FRAME] => ..: frame.split_at(3), the strip is blanked and one dot
\* drawn for each sample
wave_frame(frame, rgb, font) ==
    IF Len(frame) < 3 THEN DecodePanic(rgb, font)
    ELSE LET colour == <<frame[1], frame[2], frame[3]>>
             data == SubSeq(frame, 4, Len(frame))
         IN  Decoded(<<DrawRectangle(0, 0, M8_SCREEN_WIDTH, 24, <<0, 0, 0>>)>>
                      \o [i \in 1..Len(data) |->
                             DrawRectangle(i - 1, Min(data[i], 20), 1, 1, colour)],
                     rgb, font)

\* [SYSTEM_FRAME] => font_id = frame[4]
system_frame(frame, rgb, font) ==
    IF Len(frame) < 5 THEN DecodePanic(rgb, font)
    ELSE Decoded(<<>>, rgb, frame[5])

\* decoded.split_at(1) and match t: one arm for each opcode, none for the rest
decode_frame(decoded, rgb, font) ==
    IF decoded = <<>> THEN DecodePanic(rgb, font)
    ELSE LET t == Head(decoded)
             frame == Tail(decoded)
         IN  IF t = RECT_FRAME THEN rect_frame(frame, rgb, font)
             ELSE IF t = TEXT_FRAME THEN text_frame(frame, rgb, font)
             ELSE IF t = WAVE_FRAME THEN wave_frame(frame, rgb, font)
             ELSE IF t = SYSTEM_FRAME THEN system_frame(frame, rgb, font)
             ELSE Decoded(<<>>, rgb, font)

\* the frames of the device the model feeds: rectangles of every length the
\* code tells apart, at the corner and off it, as large as the screen and
\* one short of it, one with a byte that travels escaped
RectFrames ==
    { <<RECT_FRAME, END, 0, 5, 0, 3, 0, 4, 0, 10, 20, 30>>,
      <<RECT_FRAME, 0, 0, 0, 0, 64, 1, 240, 0, 1, 2, 3>>,
      <<RECT_FRAME, 0, 0, 0, 0, 63, 1, 240, 0, 1, 2, 3>>,
      <<RECT_FRAME, 1, 0, 0, 0, 64, 1, 240, 0, 4, 5, 6>>,
      <<RECT_FRAME, 7, 0, 8, 0, 2, 0, 2, 0>>,
      <<RECT_FRAME, 0, 0, 0, 0, 64, 1, 241, 0>>,
      <<RECT_FRAME, 1, 0, 2, 0, 40, 50, 60>>,
      <<RECT_FRAME, 3, 1, 4, 0, 9>>,
      <<RECT_FRAME, 3, 0, 4, 0>> }

\* text in the two fonts' frames, a waveform, the two font selections, an
\* opcode the decoder does not know
OtherFrames ==
    { <<TEXT_FRAME, 65, 1, 0, 2, 0, 1, 1, 1, 2, 2, 2>>,
      <<WAVE_FRAME, 9, 9, 9, 5, 30>>,
      <<SYSTEM_FRAME, 0, 0, 0, 0, 1>>,
      <<SYSTEM_FRAME, 0, 0, 0, 0, 0>>,
      <<251, 1, 2>> }

\* frames cut short of what their arm reads
ShortFrames ==
    { <<RECT_FRAME, 3, 0>>, <<TEXT_FRAME, 65>>, <<WAVE_FRAME, 9>>, <<SYSTEM_FRAME, 0>> }

Frames == RectFrames \cup OtherFrames \cup ShortFrames

\* a serial message as the server forwards it: the tag, then each frame
\* encoded and closed by END
SerialMessage(frames) ==
    <<TagS>> \o Flatten([i \in 1..Len(frames) |-> Append(slip_encode(frames[i]), END)])

\* what the socket can deliver in one message of n frames or packets: a
\* serial message, and for n = 1 an audio packet or a message with a tag of
\* neither kind
UiMessages(n) ==
    {SerialMessage(fs) : fs \in [1..n -> Frames]}
        \cup (IF n = 1 THEN {<<TagA, p>> : p \in Packets} \cup {<<0, 1>>} ELSE {})

\* websocket.try_recv() gives a message, of n frames or packets:
\* msg.split_at(1) and match t
UiRecv(n, msg) ==
    /\ dec_pc = "idle"
    /\ dec_fed + n <= MaxDecoded
    /\ dec_fed' = dec_fed + n
    /\ IF Head(msg) = TagS
       THEN /\ dec_todo' = split_end(Tail(msg), <<>>)
            /\ dec_pc' = "chunks"
            /\ UNCHANGED pk_chan
       ELSE IF Head(msg) = TagA
       THEN /\ pk_chan' = Append(pk_chan, msg[2])
            /\ UNCHANGED <<dec_todo, dec_pc>>
       ELSE /\ dec_pc' = "panicked"
            /\ UNCHANGED <<dec_todo, pk_chan>>
    /\ UNCHANGED <<last_rgb, font_id, ops, dec_frame, keystate, keys_down, key_sent,
                   key_events, key_todo>>
    /\ UNCHANGED <<rs_rates, rs_log, ring, last_popped, play_last, play_pc, wa_rate, rq,
                   wa_pc, wa_data>>
    /\ UNCHANGED serverVars

\* one turn of for chunk in chunks: an empty chunk is passed over, any other
\* is decoded and its frame acted on
DecodeChunk ==
    /\ dec_pc = "chunks"
    /\ dec_todo # <<>>
    /\ dec_todo' = Tail(dec_todo)
    /\ IF Head(dec_todo) = <<>>
       THEN UNCHANGED <<dec_pc, last_rgb, font_id, ops, dec_frame>>
       ELSE LET decoded == slip_decode(<<END, END>> \o Head(dec_todo) \o <<END>>)
                r == decode_frame(decoded, last_rgb, font_id)
            IN  /\ dec_frame' = <<decoded>>
                /\ ops' = r.ops
                /\ last_rgb' = r.rgb
                /\ font_id' = r.font
                /\ dec_pc' = IF r.ok THEN "chunks" ELSE "panicked"
    /\ UNCHANGED <<dec_fed, keystate, keys_down, key_sent, key_events, key_todo>>
    /\ UNCHANGED <<serverVars, playVars>>

\* the chunks of the message are done
DecodeDone ==
    /\ dec_pc = "chunks"
    /\ dec_todo = <<>>
    /\ dec_pc' = "idle"
    /\ UNCHANGED <<dec_todo, last_rgb, font_id, ops, dec_frame, dec_fed, keystate,
                   keys_down, key_sent, key_events, key_todo>>
    /\ UNCHANGED <<serverVars, playVars>>

NextDecode ==
    \/ \E n \in 1..MaxDecoded : \E msg \in UiMessages(n) : UiRecv(n, msg)
    \/ DecodeChunk
    \/ DecodeDone

DecodeSpec == Init /\ [][NextDecode]_vars

\* ------------------------------------------------------ the keys of the UI
\* key events the user makes in one behaviour
MaxKeyEvents == 2

\* the command byte of a key state message
KeyCmd == 67

\* the keys of the keymap, the key that ends the run loop, and one more
MappedKeys == {"Up", "Down", "Left", "Right", "LeftShift", "Space", "Z", "X"}
Keys == MappedKeys \cup {"Q", "A"}

\* keymap: the bit of each key
keymap(k) ==
    CASE k = "Up" -> 6
      [] k = "Down" -> 5
      [] k = "Left" -> 7
      [] k = "Right" -> 2
      [] k = "LeftShift" -> 4
      [] k = "Space" -> 3
      [] k = "Z" -> 1
      [] k = "X" -> 0

\* whether bit b of the state is set
bit_set(state, b) == (state \div 2^b) % 2 = 1

\* keystate | (1 << bit) for a key going down, keystate & !(1 << bit) for one
\* going up
new_state(state, b, down) ==
    IF down
    THEN (IF bit_set(state, b) THEN state ELSE state + 2^b)
    ELSE (IF bit_set(state, b) THEN state - 2^b ELSE state)

\* the keys of a set in the orders a HashSet can give them, n keys at most
KeyOrders(n) ==
    {<<>>} \cup {s \in SeqsUpTo(Keys, n) : \A i, j \in 1..Len(s) : i # j => s[i] # s[j]}

KeysOf(s) == {s[i] : i \in 1..Len(s)}

\* one turn of the run loop takes get_keys_pressed() and get_keys_released()
KeyFrame(events, input) ==
    LET pressed == KeysOf(input.presses)
        released == KeysOf(input.releases)
    IN  /\ dec_pc = "idle"
        /\ key_events + events <= MaxKeyEvents
        /\ events = Len(input.presses) + Len(input.releases)
        /\ \A k \in pressed \ released : k \notin keys_down
        /\ \A k \in released \ pressed : k \in keys_down
        /\ input.held \subseteq pressed \cap released
        /\ keys_down' = ((keys_down \cup pressed) \ released) \cup input.held
        /\ key_todo' = [i \in 1..Len(input.presses) |->
                            [key |-> input.presses[i], down |-> TRUE]]
                         \o [i \in 1..Len(input.releases) |->
                                [key |-> input.releases[i], down |-> FALSE]]
        /\ key_events' = key_events + events
        /\ dec_pc' = "keys"
        /\ UNCHANGED <<dec_todo, last_rgb, font_id, ops, dec_frame, dec_fed, keystate,
                       key_sent>>
        /\ UNCHANGED <<serverVars, playVars>>

\* one turn of the two for loops: Q among the pressed keys ends the run loop,
\* any other key goes to process_key
ProcessKey ==
    /\ dec_pc = "keys"
    /\ key_todo # <<>>
    /\ key_todo' = Tail(key_todo)
    /\ LET ev == Head(key_todo)
       IN  IF ev.down /\ ev.key = "Q"
           THEN /\ dec_pc' = "quit"
                /\ UNCHANGED <<keystate, key_sent>>
           ELSE /\ UNCHANGED dec_pc
                /\ IF ev.key \in MappedKeys
                      /\ new_state(keystate, keymap(ev.key), ev.down) # keystate
                   THEN /\ keystate' = new_state(keystate, keymap(ev.key), ev.down)
                        /\ key_sent' = Append(key_sent, <<KeyCmd, keystate'>>)
                   ELSE UNCHANGED <<keystate, key_sent>>
    /\ UNCHANGED <<dec_todo, last_rgb, font_id, ops, dec_frame, dec_fed, keys_down,
                   key_events>>
    /\ UNCHANGED <<serverVars, playVars>>

\* the keys of the turn are done
KeysDone ==
    /\ dec_pc = "keys"
    /\ key_todo = <<>>
    /\ dec_pc' = "idle"
    /\ UNCHANGED <<dec_todo, last_rgb, font_id, ops, dec_frame, dec_fed, keystate,
                   keys_down, key_sent, key_events, key_todo>>
    /\ UNCHANGED <<serverVars, playVars>>

\* what one turn can meet with n key events: the keys that went down and the
\* keys that went up since the turn before, each set in an order its
\* iteration can take. A key in both sets went down and up, in either order,
\* and is held at the end or not.
KeyInputs(n) ==
    UNION {UNION {{[presses |-> p, releases |-> r, held |-> h] :
                      h \in SUBSET (KeysOf(p) \cap KeysOf(r))} :
                  r \in {s \in KeyOrders(n) : Len(s) = n - Len(p)}} :
           p \in KeyOrders(n)}

NextKeys ==
    \/ \E n \in 1..MaxKeyEvents : \E input \in KeyInputs(n) : KeyFrame(n, input)
    \/ ProcessKey
    \/ KeysDone

KeySpec == Init /\ [][NextKeys]_vars

\* ------------------------------------------- the race of a handler's loop
\* hub messages, and frames, that can be ready at one handler
MaxReady == 2

\* (variant: the arms are polled in the order written and the first that is
\* ready is taken, as select! does with `biased;`)
select_takes_in_order(c, arm) ==
    IF arm = "hub" THEN arm_hubq[c] > 0 ELSE arm_sockq[c] > 0 /\ arm_hubq[c] = 0

\* tokio::select! polls its arms in an order drawn at random each time: any
\* arm that is ready can be the one taken
select_takes(c, arm) ==
    IF arm = "hub" THEN arm_hubq[c] > 0 ELSE arm_sockq[c] > 0

\* broadcast_sender1.send(..): the message is ready at every subscription
ArmPublish ==
    /\ \E c \in Clients : arm_pc[c] # "out"
    /\ \A c \in Clients : arm_pc[c] # "out" => arm_hubq[c] < MaxReady
    /\ arm_hubq' = [c \in Clients |-> IF arm_pc[c] # "out" THEN arm_hubq[c] + 1
                                       ELSE arm_hubq[c]]
    /\ UNCHANGED <<arm_pc, arm_sockq>>
    /\ UNCHANGED <<linkVars, sinkVars, sockVars, audioVars, captureVars, playVars, uiVars>>

\* the client of c sends a frame
ArmFrame(c) ==
    /\ arm_pc[c] # "out"
    /\ arm_sockq[c] < MaxReady
    /\ arm_sockq' = [arm_sockq EXCEPT ![c] = @ + 1]
    /\ UNCHANGED <<arm_pc, arm_hubq>>
    /\ UNCHANGED <<linkVars, sinkVars, sockVars, audioVars, captureVars, playVars, uiVars>>

\* msg = state.broadcast_receiver.recv() => the arm is taken, its body
\* awaits sender.send(msg)
ArmHub(c) ==
    /\ arm_pc[c] = "select"
    /\ select_takes(c, "hub")
    /\ arm_hubq' = [arm_hubq EXCEPT ![c] = @ - 1]
    /\ arm_pc' = [arm_pc EXCEPT ![c] = "hub"]
    /\ UNCHANGED arm_sockq
    /\ UNCHANGED <<linkVars, sinkVars, sockVars, audioVars, captureVars, playVars, uiVars>>

\* msg = receiver.next() => the arm is taken: a binary frame has its body
\* await the lock and the sink, a close frame breaks out of the loop
ArmSock(c, kind) ==
    /\ arm_pc[c] = "select"
    /\ select_takes(c, "socket")
    /\ arm_sockq' = [arm_sockq EXCEPT ![c] = @ - 1]
    /\ arm_pc' = [arm_pc EXCEPT ![c] = IF kind = "Binary" THEN "socket" ELSE "out"]
    /\ UNCHANGED arm_hubq
    /\ UNCHANGED <<linkVars, sinkVars, sockVars, audioVars, captureVars, playVars, uiVars>>

\* the body of the arm is through, the loop is back at select!
ArmDone(c) ==
    /\ arm_pc[c] \in {"hub", "socket"}
    /\ arm_pc' = [arm_pc EXCEPT ![c] = "select"]
    /\ UNCHANGED <<arm_hubq, arm_sockq>>
    /\ UNCHANGED <<linkVars, sinkVars, sockVars, audioVars, captureVars, playVars, uiVars>>

NextArm ==
    \/ ArmPublish
    \/ \E c \in Clients : ArmFrame(c)
    \/ \E c \in Clients : ArmHub(c)
    \/ \E c \in Clients, kind \in {"Binary", "Close"} : ArmSock(c, kind)
    \/ \E c \in Clients : ArmDone(c)

\* The forwarder publishes and the clients send when they will, under no
\* fairness. A handler is a tokio task that runs whenever it can: the body of
\* an arm ends once its await is served, and since select! draws the order of
\* its arms at random, an arm that is ready at select! again and again is
\* taken at some time.
ArmSpec ==
    /\ Init
    /\ [][NextArm]_vars
    /\ \A c \in Clients :
          /\ WF_vars(ArmDone(c))
          /\ SF_vars(ArmHub(c))
          /\ SF_vars(\E kind \in {"Binary", "Close"} : ArmSock(c, kind))

\* ------------------------------------------- the hub while the clients come and go
\* Both producers feed the forwarder while two clients connect and leave
\* with a close frame.
NextComeAndGo ==
    \/ SerialInitDisconnect
    \/ SerialInitReset
    \/ ReadData(EndMsg)
    \/ BlockingSend
    \/ ForwardSerial
    \/ AudioCallback(MaxSockAudio)
    \/ ForwardAudio
    \/ \E c \in Clients : WsUpgrade(c)
    \/ \E c \in Clients : WsConnect(c, SockCmds)
    \/ \E c \in Clients : ClientEvent(c, CloseMsg)
    \/ \E c \in Clients : WsSocket(c)

ComeAndGoSpec == Init /\ [][NextComeAndGo]_vars

\* =============================================================== properties
\* the bytes of the open handshake, as the device must see them
OpenHandshake == <<68, 69, 82>>

\* the bytes a command stands for on the wire
ExpectedBytes(cmd) == IF cmd.type = "Connect" THEN <<69, 82>> ELSE cmd.data

ExpectedWrites(cmds) == Flatten([i \in 1..Len(cmds) |-> ExpectedBytes(cmds[i])])

\* the thread has passed the handshake and has not panicked
PastHandshake == pc \in {"read", "send", "poll", "done"}

\* C1: however the device's bytes are cut into reads, the chunks emitted over
\* all the reads, concatenated, are the one chunk a single pass over all the
\* bytes emits (everything up to and including the last END), and the residual
\* is the residual of that single pass; for the thread's reassembly and for
\* the framed SLIPCodec alike.
C1_ChoppedEqualsOnePass ==
    LET one == reassemble(<<>>, readLog)
        whole == decode(readLog)
    IN  /\ Flatten(chunks) = one.to_send
        /\ work_buffer = one.rest
        /\ Flatten(codec_out) = whole.packet
        /\ codec_src = whole.rest

\* three bytes arrived in at least two reads, two chunks were emitted and a
\* residual is left
C1_Witness ==
    /\ Len(chunks) = 2
    /\ Len(codec_out) = 2
    /\ work_buffer # <<>>

\* C2: the emitted chunks followed by the residual are the bytes read so far:
\* nothing is lost, duplicated or reordered across reads.
C2_NoByteLostOrDuplicated ==
    /\ Flatten(chunks) \o work_buffer = readLog
    /\ Flatten(codec_out) \o codec_src = readLog

\* a chunk that spans two reads was emitted and a residual is left
C2_Witness ==
    /\ Len(readLog) = 3
    /\ Len(chunks) = 1
    /\ Len(chunks[1]) = 2
    /\ chunks[1][1] # END
    /\ work_buffer # <<>>

\* C3: once the device has been read from, or a command has been taken from
\* the queue, the device has received DISCONNECT, ENABLE, RESET as its first
\* three bytes, in that order.
C3_HandshakeFirst ==
    (lastRead # "none" \/ dequeued # <<>> \/ PastHandshake) =>
        (Len(devOut) >= 3 /\ SubSeq(devOut, 1, 3) = OpenHandshake)

\* the thread has read from the device and has taken a command
C3_Witness == lastRead # "none" /\ dequeued # <<>> /\ pc = "read"

C5_TransientReadError ==
    /\ [][(pc = "read" /\ pc' # pc /\ lastRead' \in {"TimedOut", "Interrupted"}) =>
            /\ pc' = "poll"
            /\ work_buffer' = work_buffer
            /\ codec_src' = codec_src
            /\ pending' = pending
            /\ serial_chan' = serial_chan
            /\ hubLog' = hubLog
            /\ chunks' = chunks]_vars
    /\ [][(pc = "poll" /\ pc' # pc) =>
            (pc' = "read" \/ (pc' = "panicked" /\ dequeued' # dequeued))]_vars

\* the thread is back at the read after a timed-out read, the residual held
\* across it
C5_Witness ==
    /\ lastRead = "TimedOut"
    /\ pc = "read"
    /\ work_buffer # <<>>

\* the messages of serial origin, in the order the thread handed them over:
\* those the hub has, those in the channel, the one being handed over
SerialOut ==
    hubLog \o serial_chan \o (IF pending = NoMsg THEN <<>> ELSE <<pending>>)

\* C6: each chunk made ready is one binary message, 'S' followed by the chunk;
\* these messages reach the hub in the order of the chunks.
C6_ChunksTaggedInOrder ==
    SelectSeq(SerialOut, LAMBDA m : m.kind = "Binary") =
        [i \in 1..Len(chunks) |-> [kind |-> "Binary", data |-> <<83>> \o chunks[i]]]

\* two different chunks have reached the hub
C6_Witness ==
    /\ Len(hubLog) >= 2
    /\ hubLog[1].kind = "Binary"
    /\ hubLog[2].kind = "Binary"
    /\ hubLog[1] # hubLog[2]

\* C7: what the device has received is the handshake followed by the bytes of
\* the commands taken from the queue: ENABLE, RESET for Connect, the payload
\* as it is for WsMessage, and nothing else; a failed write leaves a prefix.
\* SLIPCodec::encode produces the same bytes.
C7_WritesVerbatim ==
    LET expected == OpenHandshake \o ExpectedWrites(dequeued)
    IN  /\ IsPrefix(devOut, expected)
        /\ PastHandshake => devOut = expected
        /\ codec_dst = ExpectedWrites(dequeued)

\* a Connect and a payload holding the END byte have been written
C7_Witness ==
    /\ pc = "read"
    /\ Len(dequeued) = 2
    /\ dequeued[1] = Connect
    /\ dequeued[2] = WsMessage(EndMsg)

\* C8: the commands sent by the handlers are, in order, those the thread has
\* taken followed by those still queued; while the link is alive the device
\* has received each command taken once, in that order.
C8_NoCommandDropped ==
    /\ enqLog = dequeued \o serial_control
    /\ PastHandshake =>
          devOut = OpenHandshake \o ExpectedWrites(SubSeq(enqLog, 1, Len(dequeued)))

\* one command is written, a second one has queued up behind it
C8_Witness ==
    /\ PastHandshake
    /\ Len(dequeued) = 1
    /\ Len(serial_control) = 1

\* C9: a command in the queue is taken and written, or the link dies.
C9_ControlWritesNotStarved ==
    \A k \in 1..MaxCmds :
        (Len(enqLog) >= k) ~> (Len(dequeued) >= k \/ ~ReceiverAlive)

\* a command was written straight after a read that delivered data
C9_Witness ==
    /\ lastRead = "Data"
    /\ chunks # <<>>
    /\ pc = "read"
    /\ dequeued # <<>>

\* C10 (as claimed): the control queue never holds more commands than a
\* channel of the capacity the code gives its bounded channels.
C10_ControlQueueBounded == Len(serial_control) <= ChanCap

\* the thread has panicked on a write, of the handshake or of a command
WriteFailed == pc = "panicked" /\ lastRead # "Other"

\* a binary message tagged 'S'
IsSerialMsg(m) == m.kind = "Binary" /\ m.data # <<>> /\ m.data[1] = 83

\* C12: a write of a command that does not put all its bytes on the device
\* ends the thread; from then on the device is neither read nor written, no
\* command is taken, and the thread hands no further 'S' message towards the
\* hub (those it handed over before stay on their way).
C12_WriteFailureIsFatal ==
    /\ [][(pc = "poll" /\ dequeued' # dequeued
             /\ devOut' # devOut \o ExpectedBytes(Head(serial_control))) =>
            pc' = "panicked"]_vars
    /\ [][WriteFailed =>
            /\ pc' = pc
            /\ devOut' = devOut
            /\ readLog' = readLog
            /\ lastRead' = lastRead
            /\ dequeued' = dequeued
            /\ SelectSeq(SerialOut', IsSerialMsg) = SelectSeq(SerialOut, IsSerialMsg)]_vars

\* the write of a command failed while a message was on its way to the hub
\* and another command was waiting
C12_Witness ==
    /\ WriteFailed
    /\ dequeued # <<>>
    /\ serial_chan # <<>>
    /\ serial_control # <<>>

\* the bytes the commands given to the sink make, one command after the other
SinkBytes == Flatten([i \in 1..Len(sink_cmds) |-> encode(sink_cmds[i].cmd)])

\* C11: whatever the handlers do at the same time, the bytes that reach the
\* device through the shared sink are the bytes of whole commands, one command
\* after the other in the order the sink was taken; one handler at most is
\* writing, and it is the one that holds the sink.
C11_WritesSerialized ==
    /\ sink_out \o sink_buf = SinkBytes
    /\ \A c \in Clients : srv_pc[c] = "Sending" <=> sink_lock = c
    /\ \A c, d \in Clients :
          (srv_pc[c] = "Sending" /\ srv_pc[d] = "Sending") => c = d

\* a handler is in the middle of the bytes of its command while the other,
\* which has written before, is connected and may send
C11_Witness ==
    \E c, d \in Clients :
        /\ c # d
        /\ srv_pc[c] = "Sending"
        /\ srv_pc[d] = "Active"
        /\ sink_buf # <<>>
        /\ Len(sink_buf) < Len(encode(sink_cmds[Len(sink_cmds)].cmd))
        /\ \E i \in 1..Len(sink_cmds) : sink_cmds[i].who = d

\* messages published that the subscription of c has not returned yet
Unreceived(c) == Len(hubLog) - sub_next[c]

\* C13: whenever the forwarder holds a message for the hub, publishing it is
\* enabled, however many messages the subscribers have left unreceived; and
\* the step that publishes changes nothing on the side of any subscriber.
C13_PublishNeverBlocks ==
    /\ [](audio_chan # <<>> => ENABLED ForwardAudio)
    /\ [][hubLog' # hubLog =>
            /\ hubLog' = Append(hubLog, Head(audio_chan))
            /\ sub_next' = sub_next
            /\ hubRecv' = hubRecv
            /\ sockOut' = sockOut
            /\ conn' = conn]_vars

\* a connected subscriber holds as many unreceived messages as the hub has
\* room for, the forwarder has one more to publish, and the other subscriber
\* has read all there is
C13_Witness ==
    \E c, d \in Clients :
        /\ conn[c] = "Active"
        /\ Unreceived(c) = HubCap
        /\ conn[d] = "Active"
        /\ Unreceived(d) = 0
        /\ audio_chan # <<>>

\* the messages published since c subscribed
PublishedSince(c) == SubSeq(hubLog, sub_start[c] + 1, Len(hubLog))

\* C14: what a subscriber that has met no lag signal has received is the
\* messages published since it subscribed, from the first of them on, in
\* publish order, each once and without a gap; the one it receives next is
\* the one published after the last it received.
C14_ReceivesPublishedSinceSubscription ==
    \A c \in Clients :
        (sub_next[c] >= 0 /\ lastArm[c] # "Lagged") =>
            /\ IsPrefix(hubRecv[c], PublishedSince(c))
            /\ sub_next[c] = sub_start[c] + Len(hubRecv[c])

\* one subscriber joined before the first publish and has received every
\* message; the other joined after some were published and has received two
C14_Witness ==
    \E c, d \in Clients :
        /\ sub_next[c] >= 0 /\ sub_start[c] = 0
        /\ hubRecv[c] = hubLog
        /\ sub_start[d] > 0
        /\ Len(hubRecv[d]) = 2
        /\ hubRecv[d][1] = hubLog[sub_start[d] + 1]

\* c is connected and more than the capacity of the hub behind
Behind(c) == conn[c] = "Active" /\ Unreceived(c) > HubCap

\* C15: a subscriber more than 8 messages behind gets no message from its
\* subscription any more; its receive returns the lag signal, on which its
\* handler, and no other, goes to Closing without forwarding anything; the
\* subscribers that met no lag signal keep receiving what is published, in
\* order.
C15_LagClosesThatConnectionOnly ==
    /\ [][\A c \in Clients :
            Behind(c) => (hubRecv'[c] = hubRecv[c] /\ sockOut'[c] = sockOut[c])]_vars
    /\ [][\A c \in Clients :
            (lastArm'[c] = "Lagged" /\ lastArm[c] # "Lagged") =>
                /\ Behind(c)
                /\ conn'[c] = "Closing"
                /\ \A d \in Clients \ {c} :
                      /\ conn'[d] = conn[d]
                      /\ sub_next'[d] = sub_next[d]
                      /\ hubRecv'[d] = hubRecv[d]
                      /\ sockOut'[d] = sockOut[d]]_vars
    /\ [](\A c \in Clients : lastArm[c] = "Lagged" => conn[c] = "Closing")
    /\ [](\A d \in Clients :
            (sub_next[d] >= 0 /\ lastArm[d] # "Lagged") =>
                IsPrefix(hubRecv[d], PublishedSince(d)))

\* one handler has closed on the lag signal, having forwarded nothing, and
\* the other, subscribed as early, has received all nine messages
C15_Witness ==
    \E c, d \in Clients :
        /\ lastArm[c] = "Lagged" /\ conn[c] = "Closing" /\ sockOut[c] = <<>>
        /\ conn[d] = "Active"
        /\ Len(hubLog) > HubCap
        /\ hubRecv[d] = hubLog
        /\ sockOut[d] = hubLog

\* the sequence s without its last element
Front(s) == SubSeq(s, 1, Len(s) - 1)

\* the handler of c has panicked on the send to its socket
SocketSendFailed(c) == conn[c] = "Panicked" /\ lastArm[c] = "Hub"

\* C19: what a handler has sent to its socket is what its subscription has
\* returned to it: the same messages, unchanged, one for one and in the same
\* order; a handler that a failed send to the socket has ended has sent all
\* but the message of that send.
C19_ForwardsHubMessagesUnchanged ==
    \A c \in Clients :
        sockOut[c] = IF SocketSendFailed(c) THEN Front(hubRecv[c]) ELSE hubRecv[c]

\* a connected handler has forwarded three messages, and the other two
\* before the send of a third failed
C19_Witness ==
    \E c, d \in Clients :
        /\ conn[c] = "Active"
        /\ Len(sockOut[c]) = 3
        /\ sockOut[c][1].data[1] = TagA
        /\ SocketSendFailed(d)
        /\ Len(hubRecv[d]) = 3

\* how far a handler is: before its loop, in it, or over (by a break, or by
\* a panic that ends its task)
HandlerRank(s) == CASE s = "Connecting" -> 0 [] s = "Active" -> 1 [] OTHER -> 2

\* C16: a handler goes from Connecting to Active to Closing and never back;
\* a handler in Closing stays there, sends no further command and forwards no
\* further message to its socket. The same holds of a handler a panic has
\* ended.
C16_HandlerOnlyMovesForward ==
    /\ [][\A c \in Clients : HandlerRank(conn'[c]) >= HandlerRank(conn[c])]_vars
    /\ [][\A c \in Clients :
            conn[c] \in {"Closing", "Panicked"} =>
                /\ conn'[c] = conn[c]
                /\ sent'[c] = sent[c]
                /\ sockOut'[c] = sockOut[c]
                /\ hubRecv'[c] = hubRecv[c]
                /\ framesIn'[c] = framesIn[c]]_vars

\* a handler is in Closing, its Connect and a frame of its client sent,
\* while the hub has a message it has not received and the other handler is
\* in its loop
C16_Witness ==
    \E c, d \in Clients :
        /\ c # d
        /\ conn[c] = "Closing"
        /\ Len(sent[c]) >= 2
        /\ sub_next[c] >= 0
        /\ Len(hubLog) > sub_next[c]
        /\ conn[d] = "Active"

\* the arms of the loop on which a handler is to leave it: a close frame, an
\* error of the socket, the end of its stream, a lag signal of the hub
ClosingArms == {"Close", "Err", "End", "Lagged"}

\* C17: a handler that has taken a close frame, an error of its socket, the
\* end of its socket's stream or a lag signal of its subscription is in
\* Closing.
C17_ClosesOnEveryEnd ==
    \A c \in Clients : lastArm[c] \in ClosingArms => conn[c] = "Closing"

\* the same without the end of the stream
C17_ClosesOnFrameErrorOrLag ==
    \A c \in Clients : lastArm[c] \in ClosingArms \ {"End"} => conn[c] = "Closing"

\* the step of a handler that finds its socket's stream ended leaves it
\* Active, in its loop
C17_StreamEndLeavesHandlerActive ==
    [][\A c \in Clients :
          (in_loop(c) /\ lastArm'[c] = "End") => conn'[c] = "Active"]_vars

\* C18: a handler has sent nothing and forwarded nothing before it is Active;
\* the first command it sends is a Connect, sent on becoming Active, and it
\* sends no other Connect; so whatever it forwards to its socket and whatever
\* frame of its client it sends on comes after its Connect.
C18_OneConnectFirst ==
    \A c \in Clients :
        /\ conn[c] = "Connecting" =>
              (sent[c] = <<>> /\ sockOut[c] = <<>> /\ hubRecv[c] = <<>>
                 /\ framesIn[c] = <<>>)
        /\ conn[c] = "Active" => sent[c] # <<>>
        /\ (sockOut[c] # <<>> \/ hubRecv[c] # <<>> \/ framesIn[c] # <<>>) =>
              sent[c] # <<>>
        /\ sent[c] # <<>> => sent[c][1] = Connect
        /\ \A i \in 2..Len(sent[c]) : sent[c][i] # Connect

\* a handler has sent its Connect and then a frame of its client and has
\* forwarded a message of the hub, the other handler having sent its Connect
C18_Witness ==
    \E c \in Clients :
        /\ conn[c] = "Active"
        /\ Len(sent[c]) = 2
        /\ sent[c][2] = WsMessage(KeyMsg)
        /\ sockOut[c] # <<>>
        /\ \E d \in Clients \ {c} : Len(sent[d]) = 1 /\ enqLog[1] = Connect

\* the commands the frames make that handler c has taken from its socket
FrameCmds(c) == [i \in 1..Len(framesIn[c]) |-> WsMessage(framesIn[c][i])]

\* the handler of c has panicked on the send of a frame to the queue
FrameSendFailed(c) == conn[c] = "Panicked" /\ lastArm[c] = "Binary"

\* C20: after its Connect, what a handler has sent to the control queue is
\* one WsMessage for each binary frame it has taken from its client, with the
\* payload of the frame unchanged and in the order of the frames; a handler
\* ended by a failed send has sent all but the frame of that send. The frames
\* are taken in the order the client put them on the socket.
C20_FramesBecomeWsMessagesInOrder ==
    /\ [](\A c \in Clients :
            (sent[c] # <<>> \/ framesIn[c] # <<>>) =>
                sent[c] = <<Connect>> \o (IF FrameSendFailed(c)
                                          THEN Front(FrameCmds(c))
                                          ELSE FrameCmds(c)))
    /\ [][\A c \in Clients :
            framesIn'[c] # framesIn[c] =>
                /\ sockIn[c] # <<>>
                /\ framesIn'[c] = Append(framesIn[c], Head(sockIn[c]).data)
                /\ sockIn'[c] = Tail(sockIn[c])]_vars

\* a handler has sent on two different frames of its client, in their order
C20_Witness ==
    \E c \in Clients :
        /\ framesIn[c] = <<KeyMsg, EndMsg>>
        /\ sent[c] = <<Connect, WsMessage(KeyMsg), WsMessage(EndMsg)>>
        /\ Len(serial_control) >= 3

\* the step in which the connection of c fails: its handler takes an error
\* or a frame of an unsupported type from its socket, or its send of a hub
\* message to the socket fails
ConnectionFails(c) ==
    /\ in_loop(c)
    /\ \/ /\ sockIn[c] # <<>>
          /\ Head(sockIn[c]).kind \in {"Err", "Text"}
          /\ sockIn'[c] = Tail(sockIn[c])
       \/ /\ hubRecv'[c] # hubRecv[c]
          /\ sockOut'[c] = sockOut[c]

\* C21: the step in which a connection fails ends the handler of that
\* connection and touches nothing else: the serial thread, the channels, the
\* hub and the other handlers are as before; and whenever the forwarder holds
\* a message, or a handler in its loop has a hub message or a frame to take,
\* that step is enabled, whatever has happened to the other connections.
C21_ConnectionFailureIsContained ==
    /\ [][\A c \in Clients :
            ConnectionFails(c) =>
                /\ conn'[c] \in {"Closing", "Panicked"}
                /\ pc' = pc
                /\ hubLog' = hubLog
                /\ audio_chan' = audio_chan
                /\ serial_control' = serial_control
                /\ \A d \in Clients \ {c} :
                      /\ conn'[d] = conn[d]
                      /\ sub_next'[d] = sub_next[d]
                      /\ sockIn'[d] = sockIn[d]
                      /\ sockOut'[d] = sockOut[d]]_vars
    /\ [](audio_chan # <<>> => ENABLED ForwardAudio)
    /\ [](\A d \in Clients :
            (in_loop(d) /\ sub_next[d] < Len(hubLog)) => ENABLED WsHubRecv(d, TRUE))
    /\ [](\A d \in Clients :
            (in_loop(d) /\ sockIn[d] # <<>> /\ Head(sockIn[d]).kind = "Binary") =>
                ENABLED WsBinary(d, SockCmds))

\* a frame of an unsupported type has ended one handler; the other is in its
\* loop, has forwarded nothing yet and has a hub message and a frame to take
C21_Witness ==
    \E c, d \in Clients :
        /\ conn[c] = "Panicked" /\ lastArm[c] = "Text"
        /\ conn[d] = "Active"
        /\ Unreceived(d) > 0
        /\ sockIn[d] # <<>>

\* handler c has left its loop, by a break or by a panic
Gone(c) == conn[c] \in {"Closing", "Panicked"}

\* C22: when one of two connected clients leaves, the step that ends its
\* handler changes neither the hub nor anything of the other handler; and
\* while the other stays connected and has not lagged, what its socket has
\* got is the messages published since it subscribed, in publish order and
\* without a gap up to the one it is to get next, and the next one can be
\* received whenever there is one.
C22_RemainingClientStillServed ==
    /\ [][\A c \in Clients :
            (conn[c] = "Active" /\ Gone(c)') =>
                /\ hubLog' = hubLog
                /\ \A d \in Clients \ {c} :
                      /\ conn'[d] = conn[d]
                      /\ sub_next'[d] = sub_next[d]
                      /\ hubRecv'[d] = hubRecv[d]
                      /\ sockOut'[d] = sockOut[d]]_vars
    /\ [](\A c \in Clients : \A d \in Clients \ {c} :
            (Gone(c) /\ conn[d] = "Active" /\ ~hub_lagged(d)) =>
                /\ sockOut[d] = SubSeq(hubLog, sub_start[d] + 1, sub_next[d])
                /\ sub_next[d] < Len(hubLog) => ENABLED WsHubRecv(d, TRUE))

\* both clients subscribed before the first publish; the one that closed had
\* got one message from the link, the other is connected and its socket has
\* got both of the two messages published, the second of them a message of
\* the link
C22_Witness ==
    /\ conn["c1"] = "Closing" /\ lastArm["c1"] = "Close"
    /\ sub_start["c1"] = 0 /\ Len(hubRecv["c1"]) = 1
    /\ conn["c2"] = "Active" /\ sub_start["c2"] = 0
    /\ Len(hubLog) = 2
    /\ sockOut["c2"] = hubLog
    /\ hubLog[2].kind = "Binary" /\ hubLog[2].data[1] = TagS

\* a binary message whose first byte is the tag of the link or of the audio
TaggedMessage(msg) ==
    /\ msg.kind = "Binary"
    /\ msg.data # <<>>
    /\ msg.data[1] \in {TagS, TagA}

\* every message the hub has carried and every message a handler has sent to
\* its socket
Carried ==
    {hubLog[i] : i \in 1..Len(hubLog)} \cup
    UNION {{sockOut[c][i] : i \in 1..Len(sockOut[c])} : c \in Clients}

\* C23 (as claimed): every message the hub carries and every message a
\* handler sends to its socket is a binary message whose first byte is 'S'
\* or 'A'.
C23_OnlyTaggedMessages == \A msg \in Carried : TaggedMessage(msg)

\* C23 (amended): every message the hub carries and every message a handler
\* sends to its socket is a binary message whose first byte is 'S' or 'A',
\* or the close notification of the link, of which the hub carries at most
\* one, after every message of the link.
C23_TaggedOrCloseNotification ==
    /\ \A msg \in Carried : TaggedMessage(msg) \/ msg = CloseMsg
    /\ \A i, j \in 1..Len(hubLog) :
          (hubLog[i] = CloseMsg /\ i < j) => hubLog[j].data[1] = TagA

\* the hub has carried a message of the link, an audio packet and the close
\* notification, and a handler has sent all three to its socket
C23_Witness ==
    \E c \in Clients :
        /\ \E i \in 1..Len(sockOut[c]) : sockOut[c][i].data[1] = TagS
        /\ \E i \in 1..Len(sockOut[c]) : sockOut[c][i].data[1] = TagA
        /\ \E i \in 1..Len(sockOut[c]) : sockOut[c][i] = CloseMsg
        /\ sockOut[c] = hubLog

\* the device has gone away and the serial thread has sent its close
\* notification and ended
LinkGone == pc = "done" /\ lastRead = "Zero"

\* C24: once the device has disconnected, no handler that was in its loop is
\* brought down: each stays able to send the close notification to its
\* socket.
C24_DisconnectBroadcastWithoutCrash ==
    \A c \in Clients :
        (LinkGone /\ lastArm[c] \in {"Binary", "Hub"}) => conn[c] # "Panicked"

\* what does hold: the notification follows the thread's end into the hub,
\* and the forwarder and the hub are not touched by the end of the thread
C24_NotificationIsPublished ==
    LinkGone =>
        \/ serial_chan # <<>> /\ serial_chan[Len(serial_chan)] = CloseMsg
        \/ \E i \in 1..Len(hubLog) : hubLog[i] = CloseMsg

\* every bit of every sample of the buffer is zero
AllZero(data) == \A i \in 1..Len(data) : data[i] = "Z"

\* the input callback has returned without queueing or resampling anything
BufferDropped ==
    /\ sample_buffer' = sample_buffer
    /\ fed' = fed
    /\ cap_pc' = "idle"
    /\ stepLog' = stepLog
    /\ pcm_chan' = pcm_chan
    /\ encLog' = encLog

\* C25: a callback on a buffer whose samples are all zero, of whatever
\* format, length and alignment, drops the buffer: the pending queue is
\* unchanged, no resampling step runs and nothing goes to the encoder.
C25_AllZeroBufferIsDropped ==
    [][\A data \in Buffers, off \in Offsets :
          (AllZero(data) /\ CaptureCallback(data, off, MaxFed)) => BufferDropped]_vars

\* what does hold: an all-zero buffer of a signed or a float format is
\* dropped, and so is one of an unsigned format that is made of whole
\* 16-byte words only
C25_ZeroDroppedUnlessUnsignedEdge ==
    [][\A data \in Buffers, off \in Offsets :
          (/\ AllZero(data)
           /\ CaptureCallback(data, off, MaxFed)
           /\ \/ cap_fmt \notin {"U8", "U16", "U32", "U64"}
              \/ LET parts == align_to(cap_fmt, data, off)
                 IN  parts.prefix = <<>> /\ parts.suffix = <<>>)
          => BufferDropped]_vars

\* the samples the resampling steps have taken, in step order
Consumed == Flatten([i \in 1..Len(stepLog) |-> stepLog[i].took])

\* C26: the samples the resampling steps have taken, in step order, followed
\* by the pending queue are the samples of all the buffers queued, in order;
\* every step took twice as many samples as the resampler asked frames for;
\* and when the callback has returned, the queue is short of the next step.
C26_QueueNeitherDropsNorDuplicates ==
    /\ Consumed \o sample_buffer = fed
    /\ \A i \in 1..Len(stepLog) :
          Len(stepLog[i].took) = stepLog[i].need * NUM_CHANNELS
    /\ cap_pc = "idle" => Len(sample_buffer) < in_next * NUM_CHANNELS \/ cap_fmt = "none"

\* a step has taken one frame of the four samples queued, the resampler asks
\* for two frames next and the callback has returned with two samples, not
\* all the same, left in the queue
C26_Witness ==
    /\ cap_pc = "idle"
    /\ Len(fed) = 4
    /\ Len(stepLog) = 1 /\ stepLog[1].need = 1
    /\ in_next = 2
    /\ Len(sample_buffer) = 2 /\ sample_buffer[1] # sample_buffer[2]

\* C28: every frame handed to the encoder holds 960 stereo frames, and the
\* messages made are one per frame handed over, each the tag 'A' and then
\* the packet of its frame, in the order the resampling steps made the frames.
C28_EncoderGetsChunksOf960 ==
    /\ \A i \in 1..Len(encLog) :
          /\ encLog[i].frame.frames = 960
          /\ encLog[i].frame.seq = i
          /\ encLog[i].msg.kind = "Binary"
          /\ encLog[i].msg.data = <<TagA, i>>
    /\ \A i \in 1..Len(pcm_chan) :
          /\ pcm_chan[i].frames = 960
          /\ pcm_chan[i].seq = Len(encLog) + i
    /\ Len(encLog) + Len(pcm_chan) = Len(stepLog)

\* two resampling steps of one frame in each have made two frames, and the
\* encoder has made its message of both
C28_Witness ==
    /\ Len(stepLog) = 2
    /\ stepLog[1].need = 1 /\ stepLog[2].need = 1
    /\ Len(encLog) = 2
    /\ pcm_chan = <<>>

\* C27: a resampler whose source and destination rates are equal gives back
\* the samples it was given, in order, with nothing before or after them.
C27_EqualRatesPassThrough ==
    (rs_log # <<>> /\ rs_rates[1] = rs_rates[2]) => rs_log[1].out = rs_log[1].in

\* what does hold of AudioResampler::resample with equal rates: the samples
\* come out unchanged and in order, after a second of zeros
C27_PassThroughAfterZeros ==
    (rs_log # <<>> /\ rs_rates[1] = rs_rates[2]) =>
        rs_log[1].out = Zeros(rs_rates[2] * NUM_CHANNELS) \o rs_log[1].in

\* and of Resampler::extend of the native client: with the device at the
\* rate of the codec the slots get the decoded samples, all the same sample
\* within a packet, and nothing else
C27_ExtendPassesThrough ==
    wa_rate = SAMPLE_RATE =>
        \A i \in 1..Len(wa_data.slots) : wa_data.slots[i] \in Packets

\* the sample a slot is to hold when the ring ran short: the one popped
\* last, silence when none ever was
HeldSample == IF last_popped = <<>> THEN 0 ELSE last_popped[1]

\* the number of samples the latest callback popped
Written == Min(Len(play_last[1].stale), Len(play_last[1].avail))

\* C29: after a callback that found fewer samples in the ring than it was
\* asked for, every slot it could not fill holds the sample popped last, or
\* silence if no sample was ever popped.
C29_UnderrunRepeatsLastSample ==
    play_last # <<>> =>
        \A i \in (Written + 1)..Len(play_last[1].data) :
            play_last[1].data[i] = HeldSample

\* what does hold: the slots the callback could not fill all hold what the
\* first of them held before the callback
C29_UnderrunRepeatsStaleSlot ==
    play_last # <<>> =>
        \A i \in (Written + 1)..Len(play_last[1].data) :
            play_last[1].data[i] = play_last[1].stale[Written + 1]

\* the callback on the ring has returned in one step, with the
\* min(requested, available) oldest samples of the ring in its first slots
\* and the rest of the ring left in order
RingCallbackInOneStep ==
    /\ play_pc # "panicked"
    /\ play_last # <<>> =>
          /\ SubSeq(play_last[1].data, 1, Written) = SubSeq(play_last[1].avail, 1, Written)
          /\ IsPrefix(SubSeq(play_last[1].avail, Written + 1, Len(play_last[1].avail)), ring)

\* C30: the playback callback is never waiting and never fails: it returns
\* in the step it is called in, having moved the min(requested, available)
\* oldest samples it holds to the first slots of the output.
C30_CallbackReturnsAtOnce ==
    /\ RingCallbackInOneStep
    /\ wa_pc = "idle"

\* --------------------------------------------------- the decoder of the UI
\* the decoder takes up the chunk that frame f of the device travels as
Decodes(f) ==
    /\ dec_pc = "chunks"
    /\ dec_todo # <<>>
    /\ Head(dec_todo) = slip_encode(f)
    /\ dec_todo' = Tail(dec_todo)

\* the fields of a RECT frame as the device wrote them, the opcode first
FieldX(f) == f[2] + 256 * f[3]
FieldY(f) == f[4] + 256 * f[5]
FieldW(f) == f[6] + 256 * f[7]
FieldH(f) == f[8] + 256 * f[9]

\* the rectangle is the one that clears the screen
ScreenSized(x, y, w, h) == x = 0 /\ y = 0 /\ w >= 320 /\ h >= 240

\* C31: a RECT frame with all 11 bytes gives the rectangle of exactly its x,
\* y, w, h and colour, and the 5-byte variant gives the rectangle of width
\* and height 1 at its x, y in the colour an earlier frame set last (the
\* rectangle is drawn unless it is the one that clears the screen).
C31_RectDecodedExactly ==
    [][\A f \in RectFrames :
          Decodes(f) =>
              /\ (Len(f) = 12 /\ ~ScreenSized(FieldX(f), FieldY(f), FieldW(f), FieldH(f))) =>
                    ops' = <<[op |-> "DrawRectangle", x |-> FieldX(f), y |-> FieldY(f),
                              w |-> FieldW(f), h |-> FieldH(f),
                              rgb |-> <<f[10], f[11], f[12]>>]>>
              /\ Len(f) = 6 =>
                    ops' = <<[op |-> "DrawRectangle", x |-> FieldX(f), y |-> FieldY(f),
                              w |-> 1, h |-> 1, rgb |-> last_rgb]>>]_vars

\* a 5-byte rectangle has been drawn in the colour an 11-byte one had set
C31_Witness ==
    /\ dec_frame = << <<RECT_FRAME, 3, 1, 4, 0, 9>> >>
    /\ ops = <<[op |-> "DrawRectangle", x |-> 259, y |-> 4, w |-> 1, h |-> 1,
                rgb |-> <<10, 20, 30>>]>>

\* width and height a RECT frame gives: its own where it carries them, 1 by 1
\* where it does not
GivenW(f) == IF Len(f) \in {12, 9} THEN FieldW(f) ELSE 1
GivenH(f) == IF Len(f) \in {12, 9} THEN FieldH(f) ELSE 1

\* C32: a RECT frame with x = 0, y = 0, w >= 320 and h >= 240 gives
\* ClearBackground and no DrawRectangle, and the carried colour is still
\* updated from it; every other RECT frame gives DrawRectangle and no
\* ClearBackground.
C32_ScreenRectClears ==
    [][\A f \in RectFrames :
          Decodes(f) =>
              IF ScreenSized(FieldX(f), FieldY(f), GivenW(f), GivenH(f))
              THEN /\ ops' = <<[op |-> "ClearBackground"]>>
                   /\ Len(f) = 12 => last_rgb' = <<f[10], f[11], f[12]>>
              ELSE /\ Len(ops') = 1
                   /\ ops'[1].op = "DrawRectangle"]_vars

\* a rectangle over the whole screen has cleared it and left its colour
C32_Witness ==
    /\ dec_frame = << <<RECT_FRAME, 0, 0, 0, 0, 64, 1, 240, 0, 1, 2, 3>> >>
    /\ ops = <<[op |-> "ClearBackground"]>>
    /\ last_rgb = <<1, 2, 3>>

\* frames the decoder has no arm for, or whose arm reads past their end
UnknownFrames == {f \in Frames : f[1] \notin {RECT_FRAME, TEXT_FRAME, WAVE_FRAME, SYSTEM_FRAME}}
TooShort(f) ==
    \/ f[1] = RECT_FRAME /\ Len(f) < 5
    \/ f[1] = TEXT_FRAME /\ Len(f) < 12
    \/ f[1] = WAVE_FRAME /\ Len(f) < 4
    \/ f[1] = SYSTEM_FRAME /\ Len(f) < 6

\* C33: a frame with an unknown opcode, or too short for the fields of its
\* opcode, is ignored: no operation comes of it, the decoder does not fail,
\* colour and font stay as they were, and the decoder goes on with the rest
\* of the message.
C33_MalformedFrameIgnored ==
    [][\A f \in Frames :
          (Decodes(f) /\ (f \in UnknownFrames \/ TooShort(f))) =>
              /\ dec_pc' = "chunks"
              /\ ops' = <<>>
              /\ last_rgb' = last_rgb
              /\ font_id' = font_id]_vars

\* what does hold: a frame with an unknown opcode is ignored, and a frame too
\* short for its opcode ends the decoder
C33_UnknownIgnoredShortFatal ==
    [][\A f \in Frames :
          Decodes(f) =>
              /\ f \in UnknownFrames =>
                    (dec_pc' = "chunks" /\ ops' = <<>> /\ last_rgb' = last_rgb
                        /\ font_id' = font_id)
              /\ TooShort(f) => dec_pc' = "panicked"]_vars

\* the colour a RECT frame carries, for the two lengths that carry one
FieldColour(f) ==
    IF Len(f) = 12 THEN <<f[10], f[11], f[12]>> ELSE <<f[6], f[7], f[8]>>

\* C36: the carried colour and the font id persist from one decode call to
\* the next; the colour changes only on a RECT frame with a colour of its
\* own (11 and 7 bytes; 8 bytes give w and h with the carried colour, 7 bytes
\* give 1 by 1 in the colour given), the font id only on a SYSTEM frame, and
\* TEXT, WAVE, audio and unknown frames change neither.
C36_StateChangesOnlyByItsFrames ==
    [][/\ last_rgb' # last_rgb =>
             \E f \in RectFrames :
                 Decodes(f) /\ Len(f) \in {12, 8} /\ last_rgb' = FieldColour(f)
       /\ font_id' # font_id =>
             \E f \in Frames :
                 Decodes(f) /\ f[1] = SYSTEM_FRAME /\ Len(f) >= 6 /\ font_id' = f[6]
       /\ \A f \in RectFrames :
             Decodes(f) =>
                 /\ Len(f) \in {12, 8} => last_rgb' = FieldColour(f)
                 /\ (Len(f) = 9 /\ ~ScreenSized(FieldX(f), FieldY(f), FieldW(f), FieldH(f))) =>
                       ops' = <<[op |-> "DrawRectangle", x |-> FieldX(f), y |-> FieldY(f),
                                 w |-> FieldW(f), h |-> FieldH(f), rgb |-> last_rgb]>>
                 /\ Len(f) = 8 =>
                       ops' = <<[op |-> "DrawRectangle", x |-> FieldX(f), y |-> FieldY(f),
                                 w |-> 1, h |-> 1, rgb |-> FieldColour(f)]>>
       /\ \A f \in Frames :
             (Decodes(f) /\ f[1] = SYSTEM_FRAME /\ Len(f) >= 6) => font_id' = f[6]]_vars

\* a colour set by one frame is still carried when the text frame after it
\* has been decoded and the run loop is back at the socket
C36_Witness ==
    /\ dec_frame = << <<TEXT_FRAME, 65, 1, 0, 2, 0, 1, 1, 1, 2, 2, 2>> >>
    /\ last_rgb = <<40, 50, 60>>
    /\ dec_pc = "idle"

\* ------------------------------------------------------ the keys of the UI
\* the bitmask of the message sent last, 0 when none was sent
LastMask == IF key_sent = <<>> THEN 0 ELSE key_sent[Len(key_sent)][2]

\* C34: after any sequence of key presses and releases the bitmask of the
\* last [0x43, bitmask] message has bit UP=6, DOWN=5, LEFT=7, RIGHT=2,
\* SHIFT=4, PLAY=3, Z=1, X=0 set exactly when that key is down; a message is
\* sent exactly when the bitmask changes, and unmapped keys send nothing.
C34_BitmaskFollowsKeys ==
    /\ [](dec_pc = "idle" =>
            /\ bit_set(LastMask, 6) <=> "Up" \in keys_down
            /\ bit_set(LastMask, 5) <=> "Down" \in keys_down
            /\ bit_set(LastMask, 7) <=> "Left" \in keys_down
            /\ bit_set(LastMask, 2) <=> "Right" \in keys_down
            /\ bit_set(LastMask, 4) <=> "LeftShift" \in keys_down
            /\ bit_set(LastMask, 3) <=> "Space" \in keys_down
            /\ bit_set(LastMask, 1) <=> "Z" \in keys_down
            /\ bit_set(LastMask, 0) <=> "X" \in keys_down)
    /\ [][/\ key_sent' # key_sent <=> keystate' # keystate
          /\ key_sent' # key_sent => key_sent' = Append(key_sent, <<67, keystate'>>)
          /\ (dec_pc = "keys" /\ key_todo # <<>> /\ Head(key_todo).key \notin MappedKeys)
                => key_sent' = key_sent]_vars

\* what does hold: a message goes out exactly when the bitmask changes and
\* carries the new bitmask, unmapped keys send nothing, and the bit of a key
\* is that of the event processed last for it, releases after presses
C34_MessageOnEveryChange ==
    /\ [](LastMask = keystate)
    /\ [][/\ key_sent' # key_sent <=> keystate' # keystate
          /\ key_sent' # key_sent => key_sent' = Append(key_sent, <<67, keystate'>>)
          /\ (dec_pc = "keys" /\ key_todo # <<>>) =>
                LET ev == Head(key_todo)
                IN  IF ev.key \in MappedKeys
                    THEN bit_set(keystate', keymap(ev.key)) <=> ev.down
                    ELSE key_sent' = key_sent]_vars

\* ------------------------------------------- the race of a handler's loop
\* C35: neither arm of the loop starves the other: a frame of the client that
\* is ready is processed at some time although hub messages keep coming, and
\* a hub message that is ready is forwarded at some time although the client
\* keeps sending, unless the handler has left its loop.
C35_NeitherArmStarves ==
    \A c \in Clients :
        /\ (arm_sockq[c] > 0) ~> (arm_pc[c] \in {"socket", "out"})
        /\ (arm_hubq[c] > 0) ~> (arm_pc[c] \in {"hub", "out"})

\* the socket arm of a handler has been taken with as many hub messages
\* ready as can be, and the other handler is in its hub arm with frames ready
C35_Witness ==
    /\ arm_pc["c1"] = "socket" /\ arm_hubq["c1"] = MaxReady
    /\ arm_pc["c2"] = "hub" /\ arm_sockq["c2"] = MaxReady

\* ---------------------------------------------------------- SLIP reassembly
\* the bytes read up to the last END marker among them
UpToLastEnd(bytes) ==
    LET S == {i \in 1..Len(bytes) : bytes[i] = END}
    IN  IF S = {} THEN <<>> ELSE SubSeq(bytes, 1, CHOOSE i \in S : \A j \in S : j <= i)

HasNoEnd(bytes) == \A i \in 1..Len(bytes) : bytes[i] # END

ClosedByEnd(chunk) == chunk # <<>> /\ chunk[Len(chunk)] = END

\* C37: after the reassembly has processed a read, the residual holds no END
\* marker and every chunk made is non-empty and ends with one; so a frame
\* whose END marker has been read is out with the step that read it, in the
\* thread of the root crate and in SLIPCodec::decode alike.
C37_NoFrameHeldBack ==
    /\ HasNoEnd(work_buffer)
    /\ \A i \in 1..Len(chunks) : ClosedByEnd(chunks[i])
    /\ Flatten(chunks) = UpToLastEnd(readLog)
    /\ HasNoEnd(codec_src)
    /\ \A i \in 1..Len(codec_out) : ClosedByEnd(codec_out[i])
    /\ Flatten(codec_out) = UpToLastEnd(readLog)

\* one read brought the end of a frame and the start of the next: the frame
\* is out and the residual holds only what came after its END
C37_Witness ==
    /\ Len(readLog) = MaxBytes
    /\ readLog[Len(readLog) - 1] = END
    /\ chunks # <<>>
    /\ work_buffer = <<readLog[Len(readLog)]>>
    /\ codec_src = work_buffer
    /\ lastRead = "Data"

\* ------------------------------------------------ the hub's subscriptions
\* C38: the forwarder's publish never fails for lack of subscribers: in every
\* reachable state, with no client connected yet and after every client has
\* left, the hub has a subscription, so a message that waits for the
\* forwarder can be published.
C38_PublishNeverLacksSubscribers ==
    /\ receivers # {}
    /\ serial_chan # <<>> => ENABLED ForwardSerial
    /\ audio_chan # <<>> => ENABLED ForwardAudio

\* both clients had subscribed and have left, and a packet waits for the
\* forwarder
C38_Witness ==
    /\ \A c \in Clients : sub_next[c] >= 0 /\ conn[c] = "Closing"
    /\ audio_chan # <<>>

\* ------------------------------------------------ the queue to the encoder
\* C39: the hand-off of a resampled frame to the encoder's queue succeeds in
\* every reachable state, however slowly the queue is drained and however
\* many frames one capture buffer makes.
C39_HandOffAlwaysSucceeds == cap_pc # "panicked"

\* what does hold: the first frame of a callback is always taken, whatever the
\* queue holds, and a later one is refused exactly when the frame before it
\* took the queue past the buffer of the channel and the encoder has not
\* reached this callback's sender since
C39_RefusedOnlyWhenParked ==
    [][/\ (cap_pc # "panicked" /\ cap_pc' = "panicked") =>
             (cap_pc = "loop" /\ cap_parked /\ Len(pcm_chan) >= PcmCap)
       /\ (cap_pc = "loop" /\ ~cap_parked /\ stepLog' # stepLog) =>
             (cap_pc' = "loop" /\ Len(pcm_chan') = Len(pcm_chan) + 1)
       /\ (cap_pc = "idle" /\ cap_pc' = "loop") => ~cap_parked']_vars

====
